---- MODULE Spec2Model ----
(***************************************************************************)
(* Price monitoring for a pharmacy catalog: the update run of              *)
(* atualizador.py (atualizar_produtos), the code resolver of               *)
(* scraper_core.py (scrape_by_eans and its two search paths) and the       *)
(* product registry operations of app.py, over the persisted document      *)
(* produtos.json.                                                          *)
(*                                                                         *)
(* Conventions of the model:                                               *)
(*  - a Python str is a TLA+ string; a missing key, None and '' of a       *)
(*    string field are all "" (the code only tests such fields for         *)
(*    truthiness and for equality with a non-empty code);                  *)
(*  - an optional number is <<>> (None / missing key) or <<n>>;            *)
(*  - upstream prices are integers in thousandths of a real (15.90 is      *)
(*    15900), stored prices are integers in centavos (15.90 is 1590);      *)
(*  - datetime.now() is the variable relogio, which advances once at the   *)
(*    start of every update run.                                           *)
(*  - the fields of a record are written in the order in which their names *)
(*    first occur in this module.                                          *)
(***************************************************************************)
EXTENDS Integers, Sequences, FiniteSets, TLC

VARIABLES
    arquivo,                  \* produtos.json: the persisted list of tracked products
    relogio,                  \* the wall clock read by datetime.now()
    nRuns,                    \* update runs started so far
    nOps,                     \* registry operations (add / remove) done so far
    pc,                       \* position of the update run
    produtos,                 \* atualizar_produtos: the list being updated in place
    carregados,               \* the list exactly as carregar_produtos returned it
    eans,                     \* scrape_by_eans: its argument
    all_products_enriched,    \* scrape_by_eans: the list it returns
    lote_i,                   \* process_eans_in_batch: index of the current batch
    lote_j,                   \* process_eans_in_batch: index of the current code of the batch
    found_products_map,       \* process_eans_in_batch: code -> matched summary
    eans_not_found_in_batch,  \* process_eans_in_batch: codes escalated to individual search
    results,                  \* process_eans_in_batch: its result list
    codigos,                  \* process_short_codes_individually: its argument
    cod_k,                    \* process_short_codes_individually: index of the current code
    ind_results,              \* process_short_codes_individually: its result list
    retorno,                  \* who called process_short_codes_individually
    lotes_falhos,             \* indexes of the batches whose bulk request returned None
    log,                      \* upstream requests and pauses of this run, in order
    saida,                    \* how the last run ended
    chamada                   \* the last direct call of a function, and what it returned

vars == <<arquivo, relogio, nRuns, nOps, pc, produtos, carregados, eans,
          all_products_enriched, lote_i, lote_j, found_products_map,
          eans_not_found_in_batch, results, codigos, cod_k, ind_results, retorno,
          lotes_falhos, log, saida, chamada>>

resolverVars == <<eans, all_products_enriched, lote_i, lote_j, found_products_map,
                  eans_not_found_in_batch, results, codigos, cod_k, ind_results,
                  retorno, lotes_falhos, log>>

-----------------------------------------------------------------------------
(* Program constants *)

BATCH_SIZE == 48
MAX_HISTORICO == 30

(* Bounds of the model *)

MaxProdutos == 2     \* products a single add may bring the registry to
MaxRuns == 2         \* update runs per behaviour
MaxOps == 3          \* add / remove operations per behaviour
NumEnchimento == 49  \* codes of the largest import (one more than a full batch)

-----------------------------------------------------------------------------
(* Generic helpers *)

Range(s) == {s[i] : i \in 1..Len(s)}

\* Python: x in list
InSeq(x, s) == \E i \in 1..Len(s) : s[i] = x

\* Python: sub in text (substring test on str)
Contains(sub, text) ==
    \E i \in 1..(Len(text) - Len(sub) + 1) : SubSeq(text, i, i + Len(sub) - 1) = sub

EmptyDict == [x \in {} |-> <<>>]

\* no function has been called directly yet
NenhumaChamada == [fn |-> "", args |-> <<>>, ret |-> <<>>]

-----------------------------------------------------------------------------
(* The codes the registry is fed with *)

EAN_A == "7891234567890"     \* 13 digits
EAN_B == "7891234567891"     \* 13 digits
CURTO == "123"               \* a short internal code
LONGO == "78912345678901"    \* 14 digits (e.g. a DUN-14 case code)

Codigos == {EAN_A, EAN_B, CURTO, LONGO}

-----------------------------------------------------------------------------
(* Records of the upstream catalog *)

NoOffer == [price |-> <<>>, Price |-> <<>>, listPrice |-> <<>>, ListPrice |-> <<>>]

Oferta10 == [NoOffer EXCEPT !.price = <<10000>>]                            \* 10.00
OfertaLista11 == [NoOffer EXCEPT !.price = <<0>>, !.listPrice = <<11000>>]  \* 0, list 11.00
OfertaZero == [NoOffer EXCEPT !.price = <<0>>, !.ListPrice = <<0>>]         \* no usable price

Ofertas == {Oferta10, OfertaLista11, OfertaZero}

Item(ean, ref, imgs, oferta) ==
    [ean |-> ean, referenceId |-> ref, images |-> imgs,
     sellers |-> <<[commertialOffer |-> <<oferta>>]>>]

Produto(id, nome, items) ==
    [ean |-> "", items |-> items, is_not_found |-> FALSE, productId |-> id,
     name |-> "", productName |-> nome, target_name |-> ""]

\* scraper_core: {'is_not_found': True, 'ean': code}
NotFound(code) ==
    [ean |-> code, items |-> <<>>, is_not_found |-> TRUE, productId |-> "",
     name |-> "", productName |-> "", target_name |-> ""]

\* Summaries as the term search returns them
S_A == Produto("p1", "Produto A", <<Item(EAN_A, <<>>, <<>>, Oferta10)>>)
S_B == Produto("p2", "Produto B",
               <<Item("", <<>>, <<"https://img.example/7891234567891-1.jpg">>, Oferta10)>>)
S_C == Produto("p3", "Produto C", <<Item("7897777777777", <<"123">>, <<>>, Oferta10)>>)
S_SemId == Produto("", "Produto sem id", <<Item(EAN_A, <<>>, <<>>, Oferta10)>>)
S_Outro == Produto("p9", "Outro produto", <<Item("7899999999999", <<>>, <<>>, Oferta10)>>)

\* The pages a term search for one of the codes above may answer with
Paginas == { <<>>, <<S_A>>, <<S_B>>, <<S_C>>, <<S_SemId>>, <<S_Outro, S_A>>, <<S_B, S_A>> }

\* A large import: the n-th of a run of consecutive 13-digit barcodes, each one a
\* catalog product of its own that the search finds by its barcode
Enchimento(n) == "78900000000" \o ToString(10 + n)
IsEnchimento(code) == Len(code) = 13 /\ SubSeq(code, 1, 11) = "78900000000"
S_Enchimento(code) ==
    Produto("f" \o SubSeq(code, 12, 13), "Produto " \o code,
            <<Item(code, <<>>, <<>>, Oferta10)>>)

\* The pages a term search answers with when the terms hold such barcodes: a product
\* for each of them, or for each but the first
PaginaEnchimento(termos) ==
    LET fs == SelectSeq(termos, IsEnchimento)
    IN [n \in 1..Len(fs) |-> S_Enchimento(fs[n])]

PaginasPara(termos) ==
    IF \E n \in 1..Len(termos) : IsEnchimento(termos[n])
    THEN {PaginaEnchimento(termos), Tail(PaginaEnchimento(termos))}
    ELSE Paginas

\* The detail record of a catalog identifier: the richer record has a 'name' and the
\* sub-items carry their barcode; the offer is what the shop sells at right now.
Detalhe(id, oferta) ==
    LET ean == CASE id = "p1" -> EAN_A
                 [] id = "p2" -> EAN_B
                 [] id = "p3" -> "7897777777777"
                 [] Len(id) = 3 /\ SubSeq(id, 1, 1) = "f" -> "78900000000" \o SubSeq(id, 2, 3)
                 [] OTHER -> "7899999999999"
    IN [Produto(id, "", <<Item(ean, <<>>, <<>>, oferta)>>) EXCEPT !.name = "Detalhe " \o id]

\* The products of a large import, but for the first, are found at one offer and their
\* detail lookup answers; every other lookup may find any offer, or fail
IsFixo(id) == Len(id) = 3 /\ SubSeq(id, 1, 1) = "f" /\ id # "f11"
OfertasDe(id) == IF IsFixo(id) THEN {Oferta10} ELSE Ofertas

-----------------------------------------------------------------------------
(* scraper_core.py: the upstream calls *)

\* What a call yields: data (a page, or <<record>>), None, or an exception
Ok(d) == [st |-> "ok", data |-> d]
FALHA == [st |-> "falha", data |-> <<>>]            \* the call returned None
MALFORMADO == [st |-> "malformado", data |-> <<>>]  \* the call raised

\* fazer_requisicao_api_proxy: None on RequestException / JSONDecodeError, the list under
\* 'data' otherwise; a body that is not an object, or a 'data' that is not a list of
\* objects, raises AttributeError out of the call or out of the loop over the page.
fazer_requisicao_api_proxy(termos) ==
    {FALHA, MALFORMADO} \cup {Ok(pg) : pg \in PaginasPara(termos)}

\* fetch_product_details: None on RequestException / JSONDecodeError (and a null
\* 'product'), payload['data']['product'] otherwise; "data": null raises AttributeError.
fetch_product_details(product_id) ==
    (IF IsFixo(product_id) THEN {} ELSE {FALHA, MALFORMADO})
        \cup {Ok(<<Detalhe(product_id, o)>>) : o \in OfertasDe(product_id)}

(* Events of the request log *)
EvBulk(batch) == [id |-> "", termos |-> batch, tipo |-> "bulk"]
EvIndividual(code) == [id |-> "", termos |-> <<code>>, tipo |-> "individual"]
EvDetail(code, id) == [id |-> id, termos |-> <<code>>, tipo |-> "detail"]
EvSleep == [id |-> "", termos |-> <<>>, tipo |-> "sleep"]                \* time.sleep(1)
EvSleepDetalhe == [id |-> "", termos |-> <<>>, tipo |-> "sleep_detalhe"] \* time.sleep(0.1)

-----------------------------------------------------------------------------
(* scraper_core.py: scrape_by_eans *)

IsValidEan(ean) == Len(ean) = 13
IsShortCode(ean) == Len(ean) < 13

valid_eans(es) == SelectSeq(es, IsValidEan)
short_codes(es) == SelectSeq(es, IsShortCode)

(* process_eans_in_batch: ean_batches *)
Min(a, b) == IF a < b THEN a ELSE b

NumLotes(es) == (Len(es) + BATCH_SIZE - 1) \div BATCH_SIZE

\* A slice that runs one code too far: eans[i:i + BATCH_SIZE + 1]
LoteMut(es, i) == SubSeq(es, (i - 1) * BATCH_SIZE + 1, Min(i * BATCH_SIZE + 1, Len(es)))

\* eans[i:i + BATCH_SIZE] for the i-th start of range(0, len(eans), BATCH_SIZE)
Lote(es, i) == SubSeq(es, (i - 1) * BATCH_SIZE + 1, Min(i * BATCH_SIZE, Len(es)))

(* process_eans_in_batch: the mapping of a bulk page *)

Max(S) == CHOOSE x \in S : \A y \in S : y <= x
MinOf(S) == CHOOSE x \in S : \A y \in S : x <= y

\* Strategy 1 applies to an item: `if ean_found and ean_found in batch` (the caller takes
\* e from the batch, and a code of the batch is not empty)
DirectItem(item, e) == item.ean # "" /\ item.ean = e

\* Strategy 2 applies to an item: `if not ean_found` and `ean_in_batch in url` for one of
\* the item's image URLs
FallbackItem(item, e) ==
    item.ean = "" /\ \E u \in 1..Len(item.images) : Contains(e, item.images[u])

\* The positions in the page of the products one of whose items maps e by strategy 1 / 2
DirectHits(page, e) ==
    {p \in 1..Len(page) : \E n \in 1..Len(page[p].items) : DirectItem(page[p].items[n], e)}
FallbackHits(page, e) ==
    {p \in 1..Len(page) : \E n \in 1..Len(page[p].items) : FallbackItem(page[p].items[n], e)}

\* found_products_map after the loops over the page, its items and their image URLs.
\* The loops run in page order; strategy 1 assigns found_products_map[e] unconditionally,
\* so the last product that maps e by strategy 1 stays; strategy 2 assigns only
\* `if ean_in_batch not in found_products_map`, so it sets e at most once, at the first
\* product that maps e by strategy 2, and any strategy 1 assignment replaces it.
MapPage(page, batch) ==
    LET keys == {e \in Range(batch) : DirectHits(page, e) \cup FallbackHits(page, e) # {}}
    IN [e \in keys |-> IF DirectHits(page, e) # {}
                       THEN page[Max(DirectHits(page, e))]
                       ELSE page[MinOf(FallbackHits(page, e))]]

(* process_short_codes_individually: the scan of an individual page *)

ItemMatches(item, code) ==
    \/ item.ean = code
    \/ (item.referenceId # <<>> /\ item.referenceId[1] = code)
    \/ \E u \in 1..Len(item.images) : Contains(code, item.images[u])

ProductMatches(product, code) ==
    \E n \in 1..Len(product.items) : ItemMatches(product.items[n], code)

\* A scan that does not stop at the first match: the last matching product stays
FoundProductMut(page, code) ==
    LET hits == {p \in 1..Len(page) : ProductMatches(page[p], code)}
    IN IF hits = {} THEN <<>> ELSE <<page[Max(hits)]>>

\* found_product: the first product of the page one of whose items matches; <<>> is None
RECURSIVE FoundProduct(_, _)
FoundProduct(page, code) ==
    IF page = <<>> THEN <<>>
    ELSE IF ProductMatches(Head(page), code) THEN <<Head(page)>>
    ELSE FoundProduct(Tail(page), code)

-----------------------------------------------------------------------------
(* atualizador.py: price extraction, variation, history *)

\* Python truthiness of an optional number: neither None nor 0
Truthy(x) == x # <<>> /\ x[1] # 0

\* Python: a or b
Or(a, b) == IF Truthy(a) THEN a ELSE b

\* round(float(preco), 2): thousandths to centavos, to the nearest (the offers of the
\* model have no price that ends in 5 thousandths, where float rounding decides)
Round2(m) == (m + 5) \div 10

\* A fallback taken only when the price is None, forgetting the price of 0
PrecoDaOfertaMut(oferta) ==
    LET p1 == Or(oferta.price, oferta.Price)
    IN IF p1 = <<>> THEN Or(oferta.listPrice, oferta.ListPrice) ELSE p1

\* extrair_preco_e_nome, the choice of the price: 'price' or 'Price', and the list price
\* under either casing when that is None or 0
PrecoDaOferta(oferta) ==
    LET p1 == Or(oferta.price, oferta.Price)
    IN IF p1 = <<>> \/ p1[1] = 0 THEN Or(oferta.listPrice, oferta.ListPrice) ELSE p1

\* extrair_preco_e_nome for a record that is not flagged is_not_found: <<preco, nome>>;
\* preco is <<>> for None; nome is <<s>> for the str s (resultado.get('productName', '')
\* is '' for a record with neither name).  The records of the model hold objects and
\* numbers where the code expects them, so the except branch (IndexError, KeyError,
\* TypeError), which returns (None, None), is not entered.
ExtrairDoRegistro(resultado) ==
    LET nome == <<IF resultado.name # "" THEN resultado.name ELSE resultado.productName>>
        items == resultado.items
    IN IF items = <<>> THEN << <<>>, nome >>
       ELSE LET sellers == items[1].sellers
            IN IF sellers = <<>> THEN << <<>>, nome >>
               ELSE LET co == sellers[1].commertialOffer
                    IN IF co = <<>> THEN << <<>>, nome >>
                       ELSE LET preco == PrecoDaOferta(co[1])
                            IN IF Truthy(preco) /\ preco[1] > 0
                               THEN << <<Round2(preco[1])>>, nome >>
                               ELSE << <<>>, nome >>

\* The guard on is_not_found forgotten
extrair_preco_e_nomeMut(resultado) == ExtrairDoRegistro(resultado)

\* extrair_preco_e_nome: <<preco, nome>>, both <<>> (None) for a flagged record
extrair_preco_e_nome(resultado) ==
    IF resultado.is_not_found THEN << <<>>, <<>> >> ELSE ExtrairDoRegistro(resultado)

\* A quotient cut off instead of rounded: math.floor in the place of round
RoundDivMut(n, d) == n \div d

\* round(x, 2) of the quotient n / d, d > 0, in hundredths
RoundDiv(n, d) == (2 * n + d) \div (2 * d)

\* A variation taken relative to the new price instead of the previous one
calcular_variacaoMut(preco_atual, preco_anterior) ==
    IF preco_anterior = <<>> \/ preco_anterior[1] = 0 THEN 0
    ELSE RoundDiv((preco_atual[1] - preco_anterior[1]) * 10000, preco_atual[1])

\* calcular_variacao: percent variation in hundredths of a percent
calcular_variacao(preco_atual, preco_anterior) ==
    IF preco_anterior = <<>> \/ preco_anterior[1] = 0 THEN 0
    ELSE RoundDiv((preco_atual[1] - preco_anterior[1]) * 10000, preco_anterior[1])

\* A window cut at the wrong end: produto['historico'][:MAX_HISTORICO]
LastNMut(h, n) == IF Len(h) > n THEN SubSeq(h, 1, n) ELSE h

\* produto['historico'][-MAX_HISTORICO:]
LastN(h, n) == IF Len(h) > n THEN SubSeq(h, Len(h) - n + 1, Len(h)) ELSE h

\* An append that is skipped when the price is the one of the last point
adicionar_ao_historicoMut(historico, preco, agora) ==
    IF historico # <<>> /\ historico[Len(historico)].preco = preco
    THEN historico
    ELSE LET h == Append(historico, [data |-> agora, preco |-> preco])
         IN IF Len(h) > MAX_HISTORICO THEN LastN(h, MAX_HISTORICO) ELSE h

\* adicionar_ao_historico: the product's history after the append
adicionar_ao_historico(historico, preco, agora) ==
    LET h == Append(historico, [data |-> agora, preco |-> preco])
    IN IF Len(h) > MAX_HISTORICO THEN LastN(h, MAX_HISTORICO) ELSE h

\* A new product that starts at a price of 0.0 instead of None
NovoProdutoMut(ean) ==
    [ean |-> ean, nome |-> "", preco_atual |-> <<0>>, preco_anterior |-> <<>>,
     historico |-> <<>>, variacao |-> <<>>, ultima_verificacao |-> <<>>,
     status |-> "Pendente"]

\* app.py: novo_produto
NovoProduto(ean) ==
    [ean |-> ean, nome |-> "", preco_atual |-> <<>>, preco_anterior |-> <<>>,
     historico |-> <<>>, variacao |-> <<>>, ultima_verificacao |-> <<>>,
     status |-> "Pendente"]

\* atualizar_produtos: the key a result is filed under in resultados_por_ean ("" is None)
RECURSIVE PrimeiroEan(_)
PrimeiroEan(items) ==
    IF items = <<>> THEN ""
    ELSE IF Head(items).ean # "" THEN Head(items).ean ELSE PrimeiroEan(Tail(items))

EanResultado(resultado) ==
    IF resultado.is_not_found THEN resultado.ean ELSE PrimeiroEan(resultado.items)

\* atualizar_produtos: resultados_por_ean after the loop over resultados: each key holds
\* the last result filed under it, and a result with no key is not filed
ResultadosPorEan(resultados) ==
    LET keys == {EanResultado(resultados[n]) : n \in 1..Len(resultados)} \ {""}
    IN [k \in keys |->
          resultados[Max({n \in 1..Len(resultados) : EanResultado(resultados[n]) = k})]]

\* A loop body that resets the variation of a product it has no price for
AtualizarProdutoMut(produto, mapa, agora) ==
    IF produto.ean \notin DOMAIN mapa
    THEN [produto EXCEPT !.variacao = <<>>, !.ultima_verificacao = <<agora>>,
                         !.status = "Não Encontrado"]
    ELSE IF mapa[produto.ean].is_not_found
    THEN [produto EXCEPT !.variacao = <<>>, !.ultima_verificacao = <<agora>>,
                         !.status = "Não Encontrado"]
    ELSE LET pn == extrair_preco_e_nome(mapa[produto.ean])
             novo_preco == pn[1]
             nome == pn[2]
             p1 == IF nome # <<>> /\ nome[1] # ""
                   THEN [produto EXCEPT !.nome = nome[1]] ELSE produto
         IN IF Truthy(novo_preco)
            THEN LET preco_anterior == p1.preco_atual
                 IN [p1 EXCEPT !.preco_anterior = preco_anterior,
                               !.preco_atual = novo_preco,
                               !.ultima_verificacao = <<agora>>,
                               !.status = "Monitorando",
                               !.historico = adicionar_ao_historico(@, novo_preco[1], agora),
                               !.variacao = IF Truthy(preco_anterior)
                                            THEN <<calcular_variacao(novo_preco, preco_anterior)>>
                                            ELSE <<>>]
            ELSE [p1 EXCEPT !.variacao = <<>>, !.ultima_verificacao = <<agora>>,
                            !.status = "Erro"]

\* atualizar_produtos: the body of the loop over produtos, for one product
AtualizarProduto(produto, mapa, agora) ==
    IF produto.ean \notin DOMAIN mapa
    THEN [produto EXCEPT !.status = "Não Encontrado", !.ultima_verificacao = <<agora>>]
    ELSE IF mapa[produto.ean].is_not_found
    THEN [produto EXCEPT !.status = "Não Encontrado", !.ultima_verificacao = <<agora>>]
    ELSE LET pn == extrair_preco_e_nome(mapa[produto.ean])
             novo_preco == pn[1]
             nome == pn[2]
             p1 == IF nome # <<>> /\ nome[1] # ""
                   THEN [produto EXCEPT !.nome = nome[1]] ELSE produto
         IN IF Truthy(novo_preco)
            THEN LET preco_anterior == p1.preco_atual
                 IN [p1 EXCEPT !.preco_anterior = preco_anterior,
                               !.preco_atual = novo_preco,
                               !.ultima_verificacao = <<agora>>,
                               !.status = "Monitorando",
                               !.historico = adicionar_ao_historico(@, novo_preco[1], agora),
                               !.variacao = IF Truthy(preco_anterior)
                                            THEN <<calcular_variacao(novo_preco, preco_anterior)>>
                                            ELSE <<>>]
            ELSE [p1 EXCEPT !.status = "Erro", !.ultima_verificacao = <<agora>>]

\* An except branch that also forgets the known price
MarcarErroMut(produto, agora) ==
    [produto EXCEPT !.status = "Erro", !.ultima_verificacao = <<agora>>,
                    !.preco_atual = <<>>]

\* atualizar_produtos: the except branch around scrape_by_eans, for one product
MarcarErro(produto, agora) ==
    [produto EXCEPT !.status = "Erro", !.ultima_verificacao = <<agora>>]

-----------------------------------------------------------------------------
(* Initial state: an empty registry, no run in progress *)

Init ==
    /\ arquivo = <<>>
    /\ relogio = 0
    /\ nRuns = 0
    /\ nOps = 0
    /\ pc = "idle"
    /\ produtos = <<>>
    /\ carregados = <<>>
    /\ eans = <<>>
    /\ all_products_enriched = <<>>
    /\ lote_i = 0
    /\ lote_j = 0
    /\ found_products_map = EmptyDict
    /\ eans_not_found_in_batch = <<>>
    /\ results = <<>>
    /\ codigos = <<>>
    /\ cod_k = 0
    /\ ind_results = <<>>
    /\ retorno = ""
    /\ lotes_falhos = {}
    /\ log = <<>>
    /\ saida = ""
    /\ chamada = NenhumaChamada

-----------------------------------------------------------------------------
(* app.py: the registry operations (each loads, changes and saves the document) *)

adicionar_produto(ean) ==
    /\ pc = "idle"
    /\ nOps < MaxOps
    /\ Len(arquivo) < MaxProdutos
    /\ nOps' = nOps + 1
    /\ arquivo' = IF \E i \in 1..Len(arquivo) : arquivo[i].ean = ean
                  THEN arquivo
                  ELSE Append(arquivo, NovoProduto(ean))
    /\ UNCHANGED <<relogio, nRuns, pc, produtos, carregados, saida, chamada>>
    /\ UNCHANGED resolverVars

remover_produto(ean) ==
    /\ pc = "idle"
    /\ nOps < MaxOps
    /\ nOps' = nOps + 1
    /\ arquivo' = LET NotEan(p) == p.ean # ean IN SelectSeq(arquivo, NotEan)
    /\ UNCHANGED <<relogio, nRuns, pc, produtos, carregados, saida, chamada>>
    /\ UNCHANGED resolverVars

-----------------------------------------------------------------------------
(* The control flow of scrape_by_eans between its loops.  Each operator states the  *)
(* resolver's next position, given the lists as they stand at that point.           *)

\* scrape_by_eans returns `all`
FimResolver(all) ==
    /\ pc' = "processar"
    /\ all_products_enriched' = all
    /\ lote_i' = 0 /\ lote_j' = 0 /\ found_products_map' = EmptyDict
    /\ eans_not_found_in_batch' = <<>> /\ results' = <<>>
    /\ codigos' = <<>> /\ cod_k' = 0 /\ ind_results' = <<>> /\ retorno' = ""

\* scrape_by_eans, step 2: the short codes, after process_eans_in_batch returned
AposLotes(es, all) ==
    IF short_codes(es) = <<>>
    THEN FimResolver(all)
    ELSE /\ pc' = "individual"
         /\ all_products_enriched' = all
         /\ lote_i' = 0 /\ lote_j' = 0 /\ found_products_map' = EmptyDict
         /\ eans_not_found_in_batch' = <<>> /\ results' = <<>>
         /\ codigos' = short_codes(es) /\ cod_k' = 1 /\ ind_results' = <<>>
         /\ retorno' = "curtos"

\* A loop that does not advance: the same batch is requested again
ProximoLoteMut(res) ==
    /\ pc' = "lote"
    /\ lote_i' = lote_i
    /\ results' = res
    /\ lote_j' = 0 /\ found_products_map' = EmptyDict
    /\ eans_not_found_in_batch' = <<>>
    /\ codigos' = <<>> /\ cod_k' = 0 /\ ind_results' = <<>> /\ retorno' = ""
    /\ UNCHANGED all_products_enriched

\* process_eans_in_batch: the batch lote_i is over with result list `res`
ProximoLote(res) ==
    IF lote_i < NumLotes(valid_eans(eans))
    THEN /\ pc' = "lote"
         /\ lote_i' = lote_i + 1
         /\ results' = res
         /\ lote_j' = 0 /\ found_products_map' = EmptyDict
         /\ eans_not_found_in_batch' = <<>>
         /\ codigos' = <<>> /\ cod_k' = 0 /\ ind_results' = <<>> /\ retorno' = ""
         /\ UNCHANGED all_products_enriched
    ELSE AposLotes(eans, all_products_enriched \o res)

\* the exception leaves scrape_by_eans: its frames are gone
Excecao ==
    /\ pc' = "excecao"
    /\ all_products_enriched' = <<>>
    /\ lote_i' = 0 /\ lote_j' = 0 /\ found_products_map' = EmptyDict
    /\ eans_not_found_in_batch' = <<>> /\ results' = <<>>
    /\ codigos' = <<>> /\ cod_k' = 0 /\ ind_results' = <<>> /\ retorno' = ""

-----------------------------------------------------------------------------
(* atualizador.py: atualizar_produtos, up to the call of the resolver *)

Eans(ps) == [i \in 1..Len(ps) |-> ps[i].ean]

atualizar_inicio ==
    /\ pc = "idle"
    /\ nRuns < MaxRuns
    /\ nRuns' = nRuns + 1
    /\ relogio' = relogio + 1
    /\ produtos' = arquivo
    /\ carregados' = arquivo
    /\ log' = <<>>
    /\ lotes_falhos' = {}
    /\ eans' = Eans(arquivo)
    /\ IF arquivo = <<>>
       THEN \* "Nenhum produto encontrado para atualizar."
            /\ pc' = "done"
            /\ saida' = "vazio"
            /\ UNCHANGED <<all_products_enriched, lote_i, lote_j, found_products_map,
                           eans_not_found_in_batch, results, codigos, cod_k,
                           ind_results, retorno>>
       ELSE /\ saida' = ""
            /\ IF valid_eans(Eans(arquivo)) = <<>>
               THEN AposLotes(Eans(arquivo), <<>>)
               ELSE /\ pc' = "lote"
                    /\ lote_i' = 1
                    /\ results' = <<>>
                    /\ all_products_enriched' = <<>>
                    /\ lote_j' = 0 /\ found_products_map' = EmptyDict
                    /\ eans_not_found_in_batch' = <<>>
                    /\ codigos' = <<>> /\ cod_k' = 0 /\ ind_results' = <<>>
                    /\ retorno' = ""
    /\ UNCHANGED <<arquivo, nOps, chamada>>

-----------------------------------------------------------------------------
(* scraper_core.py: process_eans_in_batch *)

\* The fail-fast branch skipping the first code of the batch: `for ean in batch[1:]`
MarkersMut(batch) == [n \in 1..(Len(batch) - 1) |-> NotFound(batch[n + 1])]

\* The markers of the fail-fast branch: one per code of the batch, in order
Markers(batch) == [n \in 1..Len(batch) |-> NotFound(batch[n])]

\* One iteration of `for i, batch in enumerate(ean_batches)` up to the mapping of the
\* page: the bulk request, and on None the whole fail-fast branch.
lote_requisicao ==
    /\ pc = "lote"
    /\ LET batch == Lote(valid_eans(eans), lote_i)
       IN \E resp \in fazer_requisicao_api_proxy(batch) :
            IF resp.st = "malformado"
            THEN /\ log' = log \o <<EvBulk(batch)>>
                 /\ Excecao
                 /\ UNCHANGED lotes_falhos
            ELSE IF resp.st = "falha"
            THEN /\ log' = log \o <<EvBulk(batch), EvSleep>>
                 /\ lotes_falhos' = lotes_falhos \cup {lote_i}
                 /\ ProximoLote(results \o Markers(batch))
            ELSE /\ log' = log \o <<EvBulk(batch)>>
                 /\ pc' = "lote_ean"
                 /\ found_products_map' = MapPage(resp.data, batch)
                 /\ lote_j' = 1
                 /\ eans_not_found_in_batch' = <<>>
                 /\ UNCHANGED <<lotes_falhos, all_products_enriched, lote_i, results,
                                codigos, cod_k, ind_results, retorno>>
    /\ UNCHANGED <<arquivo, relogio, nRuns, nOps, chamada, produtos, carregados, eans, saida>>

\* enrich_product_summaries([summary], target_name) for a summary that has a productId,
\* and the caller's fallback to the summary: the record appended to results
Enriquecido(summary, target_name, resp) ==
    IF resp.st = "ok"
    THEN [resp.data[1] EXCEPT !.target_name = target_name]
    ELSE [summary EXCEPT !.target_name = target_name]

\* The pause between the batches forgotten where no code of the batch is retried
FimLoteEansMut(res, nf, lg) ==
    IF nf # <<>>
    THEN /\ pc' = "individual"
         /\ codigos' = nf
         /\ cod_k' = 1
         /\ ind_results' = <<>>
         /\ retorno' = "lote"
         /\ results' = res
         /\ eans_not_found_in_batch' = nf
         /\ log' = lg
         /\ UNCHANGED <<all_products_enriched, lote_i, lote_j, found_products_map>>
    ELSE /\ log' = lg
         /\ ProximoLote(res)

\* The end of a batch's `for ean in batch` loop: the individual retry, or the pause
FimLoteEans(res, nf, lg) ==
    IF nf # <<>>
    THEN /\ pc' = "individual"
         /\ codigos' = nf
         /\ cod_k' = 1
         /\ ind_results' = <<>>
         /\ retorno' = "lote"
         /\ results' = res
         /\ eans_not_found_in_batch' = nf
         /\ log' = lg
         /\ UNCHANGED <<all_products_enriched, lote_i, lote_j, found_products_map>>
    ELSE /\ log' = lg \o <<EvSleep>>
         /\ ProximoLote(res)

\* One iteration of `for ean in batch`
lote_ean ==
    /\ pc = "lote_ean"
    /\ LET batch == Lote(valid_eans(eans), lote_i)
           ean == batch[lote_j]
           achado == ean \in DOMAIN found_products_map
           com_id == achado /\ found_products_map[ean].productId # ""
           Segue(res, nf, lg) ==
               IF lote_j < Len(batch)
               THEN /\ lote_j' = lote_j + 1
                    /\ results' = res
                    /\ eans_not_found_in_batch' = nf
                    /\ log' = lg
                    /\ UNCHANGED <<pc, all_products_enriched, lote_i, found_products_map,
                                   codigos, cod_k, ind_results, retorno>>
               ELSE FimLoteEans(res, nf, lg)
       IN IF com_id
          THEN LET summary == found_products_map[ean]
               IN \E resp \in fetch_product_details(summary.productId) :
                    IF resp.st = "malformado"
                    THEN /\ log' = log \o <<EvDetail(ean, summary.productId)>>
                         /\ Excecao
                    ELSE Segue(Append(results,
                                      Enriquecido(summary, "Busca EAN: " \o ean, resp)),
                               eans_not_found_in_batch,
                               log \o <<EvDetail(ean, summary.productId), EvSleepDetalhe>>)
          ELSE Segue(results, Append(eans_not_found_in_batch, ean), log)
    /\ UNCHANGED <<arquivo, relogio, nRuns, nOps, chamada, produtos, carregados, eans, saida,
                   lotes_falhos>>

-----------------------------------------------------------------------------
(* scraper_core.py: process_short_codes_individually *)

\* The record appended to results for a code whose page matched found_product
Individual(code, resp) ==
    IF resp.st = "ok"
    THEN [resp.data[1] EXCEPT !.target_name = "Busca Código: " \o code]
    ELSE NotFound(code)

\* One iteration of `for i, code in enumerate(short_codes)`
individual ==
    /\ pc = "individual"
    /\ LET code == codigos[cod_k]
           Segue(ind, lg) ==
               IF cod_k < Len(codigos)
               THEN /\ cod_k' = cod_k + 1
                    /\ ind_results' = ind
                    /\ log' = lg
                    /\ UNCHANGED <<pc, all_products_enriched, lote_i, lote_j,
                                   found_products_map, eans_not_found_in_batch, results,
                                   codigos, retorno>>
               ELSE IF retorno = "lote"
               THEN /\ log' = lg \o <<EvSleep>>
                    /\ ProximoLote(results \o ind)
               ELSE /\ log' = lg
                    /\ FimResolver(all_products_enriched \o ind)
       IN \E resp \in fazer_requisicao_api_proxy(<<code>>) :
            IF resp.st = "malformado"
            THEN /\ log' = log \o <<EvIndividual(code)>>
                 /\ Excecao
            ELSE IF resp.st = "falha"
            THEN Segue(Append(ind_results, NotFound(code)),
                       log \o <<EvIndividual(code), EvSleep>>)
            ELSE LET found_product == FoundProduct(resp.data, code)
                 IN IF found_product # <<>>
                    THEN \E det \in fetch_product_details(found_product[1].productId) :
                           LET ev == EvDetail(code, found_product[1].productId)
                           IN IF det.st = "malformado"
                              THEN /\ log' = log \o <<EvIndividual(code), ev>>
                                   /\ Excecao
                              ELSE Segue(Append(ind_results, Individual(code, det)),
                                         log \o <<EvIndividual(code), ev, EvSleep>>)
                    ELSE Segue(Append(ind_results, NotFound(code)),
                               log \o <<EvIndividual(code), EvSleep>>)
    /\ UNCHANGED <<arquivo, relogio, nRuns, nOps, chamada, produtos, carregados, eans, saida,
                   lotes_falhos>>

-----------------------------------------------------------------------------
(* atualizador.py: atualizar_produtos, after the call of the resolver *)

\* A save that is skipped when the document is no longer the one that was loaded
processarMut ==
    /\ pc = "processar"
    /\ \E mapa \in {ResultadosPorEan(all_products_enriched)} :
         \E novos \in {[n \in 1..Len(produtos) |->
                          AtualizarProduto(produtos[n], mapa, relogio)]} :
            /\ produtos' = novos
            /\ arquivo' = IF arquivo = carregados THEN novos ELSE arquivo
    /\ pc' = "done"
    /\ saida' = "completo"
    /\ UNCHANGED <<relogio, nRuns, nOps, carregados, chamada>>
    /\ UNCHANGED resolverVars

\* The resolver returned: resultados_por_ean, the loop over produtos, salvar_produtos
processar ==
    /\ pc = "processar"
    /\ \E mapa \in {ResultadosPorEan(all_products_enriched)} :
         \E novos \in {[n \in 1..Len(produtos) |->
                          AtualizarProduto(produtos[n], mapa, relogio)]} :
            /\ produtos' = novos
            /\ arquivo' = novos
    /\ pc' = "done"
    /\ saida' = "completo"
    /\ UNCHANGED <<relogio, nRuns, nOps, carregados, chamada>>
    /\ UNCHANGED resolverVars

\* The resolver raised: every product is stamped, the list is saved, the run returns
excecao ==
    /\ pc = "excecao"
    /\ LET novos == [n \in 1..Len(produtos) |-> MarcarErro(produtos[n], relogio)]
       IN /\ produtos' = novos
          /\ arquivo' = novos
    /\ pc' = "done"
    /\ saida' = "erro"
    /\ UNCHANGED <<relogio, nRuns, nOps, carregados, chamada>>
    /\ UNCHANGED resolverVars

\* atualizar_produtos has returned
retornar ==
    /\ pc = "done"
    /\ pc' = "idle"
    /\ produtos' = <<>>
    /\ carregados' = <<>>
    /\ eans' = <<>>
    /\ all_products_enriched' = <<>>
    /\ lotes_falhos' = {}
    /\ log' = <<>>
    /\ saida' = ""
    /\ UNCHANGED <<arquivo, relogio, nRuns, nOps, chamada, lote_i, lote_j, found_products_map,
                   eans_not_found_in_batch, results, codigos, cod_k, ind_results,
                   retorno>>

-----------------------------------------------------------------------------

Next ==
    \/ \E ean \in Codigos : adicionar_produto(ean)
    \/ \E ean \in Codigos : remover_produto(ean)
    \/ atualizar_inicio
    \/ lote_requisicao
    \/ lote_ean
    \/ individual
    \/ processar
    \/ excecao
    \/ retornar

Spec == Init /\ [][Next]_vars

-----------------------------------------------------------------------------
(* The update run over a large registry: the state after an import of n consecutive  *)
(* barcodes (adicionar_produtos_em_lote), n around the batch size, followed or not  *)
(* by a short code.                                                                 *)

Importados(n, curto) ==
    [k \in 1..n |-> NovoProduto(Enchimento(k))]
        \o (IF curto THEN <<NovoProduto(CURTO)>> ELSE <<>>)

InitLote ==
    /\ \E n \in (NumEnchimento - 2)..NumEnchimento, curto \in BOOLEAN :
         arquivo = Importados(n, curto)
    /\ relogio = 0
    /\ nRuns = 0
    /\ nOps = 0
    /\ pc = "idle"
    /\ produtos = <<>>
    /\ carregados = <<>>
    /\ eans = <<>>
    /\ all_products_enriched = <<>>
    /\ lote_i = 0
    /\ lote_j = 0
    /\ found_products_map = EmptyDict
    /\ eans_not_found_in_batch = <<>>
    /\ results = <<>>
    /\ codigos = <<>>
    /\ cod_k = 0
    /\ ind_results = <<>>
    /\ retorno = ""
    /\ lotes_falhos = {}
    /\ log = <<>>
    /\ saida = ""
    /\ chamada = NenhumaChamada

\* one update run per behaviour
atualizar_inicio_unico == nRuns = 0 /\ atualizar_inicio

NextLote ==
    \/ atualizar_inicio_unico
    \/ lote_requisicao
    \/ lote_ean
    \/ individual
    \/ processar
    \/ excecao
    \/ retornar

SpecLote == InitLote /\ [][NextLote]_vars

\* The run is a sequential program: whenever it has a next step, it takes it
SpecLoteJusto == SpecLote /\ WF_vars(NextLote)

-----------------------------------------------------------------------------
(* The history store on its own: a product with a stored history of any length up   *)
(* to MaxHist (a document written by earlier runs, or by hand), and appends to it.   *)

MaxHist == 32        \* longest stored history an append starts from
MaxAppends == 3      \* appends per behaviour

PrecosHistorico == {1000, 1100}

\* a stored history of n points, whose prices alternate
HistoricoDe(n) ==
    [k \in 1..n |-> [data |-> k - n, preco |-> IF k % 2 = 0 THEN 1000 ELSE 1100]]

InitHistorico ==
    /\ \E n \in 0..MaxHist :
         arquivo = <<[NovoProduto(EAN_A) EXCEPT !.historico = HistoricoDe(n)]>>
    /\ relogio = 0
    /\ nRuns = 0
    /\ nOps = 0
    /\ pc = "historico"
    /\ produtos = <<>>
    /\ carregados = <<>>
    /\ eans = <<>>
    /\ all_products_enriched = <<>>
    /\ lote_i = 0
    /\ lote_j = 0
    /\ found_products_map = EmptyDict
    /\ eans_not_found_in_batch = <<>>
    /\ results = <<>>
    /\ codigos = <<>>
    /\ cod_k = 0
    /\ ind_results = <<>>
    /\ retorno = ""
    /\ lotes_falhos = {}
    /\ log = <<>>
    /\ saida = 0
    /\ chamada = NenhumaChamada

\* adicionar_ao_historico(produto, preco) on the stored product; carregados keeps the
\* product as it was before the call and saida the price appended
append_historico(preco) ==
    /\ pc = "historico"
    /\ nOps < MaxAppends
    /\ nOps' = nOps + 1
    /\ relogio' = relogio + 1
    /\ carregados' = arquivo
    /\ arquivo' = <<[arquivo[1] EXCEPT
                       !.historico = adicionar_ao_historico(@, preco, relogio + 1)]>>
    /\ saida' = preco
    /\ UNCHANGED <<nRuns, pc, produtos, chamada>>
    /\ UNCHANGED resolverVars

NextHistorico == \E preco \in PrecosHistorico : append_historico(preco)

SpecHistorico == InitHistorico /\ [][NextHistorico]_vars

-----------------------------------------------------------------------------
(* The pure functions of atualizador.py called directly, on inputs of every shape   *)
(* the code distinguishes: calcular_variacao, extrair_preco_e_nome, and the body of *)
(* the loop of atualizar_produtos over one product and the record joined to it.     *)

\* Prices in centavos.  No two of them give a variation that ends in half a hundredth,
\* where the rounding of the float would decide.
PrecosCalculo == {1, 333, 9000, 10000, 11000}

\* preco_anterior: None, 0, or a price
Anteriores == {<<>>, <<0>>} \cup {<<p>> : p \in PrecosCalculo}

\* Offers: every combination of absent, zero and positive under the four keys, and a
\* negative price and one below half a centavo under 'price' (thousandths)
OfertasCalculo ==
    [price : {<<>>, <<0>>, <<10000>>, <<4>>, <<-1000>>},
     Price : {<<>>, <<0>>, <<12000>>},
     listPrice : {<<>>, <<0>>, <<15900>>},
     ListPrice : {<<>>, <<0>>, <<13000>>}]

\* ('name', 'productName') as the record has them
NomesCalculo == {<<"", "">>, <<"", "Produto A">>, <<"Nome A", "Produto A">>}

RegistroCalculo(nomes, items) ==
    [Produto("p1", nomes[2], items) EXCEPT !.name = nomes[1]]

\* Records that lack a level of items[0]['sellers'][0]['commertialOffer']
SemNivel ==
    { <<>>,
      <<[Item(EAN_A, <<>>, <<>>, NoOffer) EXCEPT !.sellers = <<>>]>>,
      <<[Item(EAN_A, <<>>, <<>>, NoOffer) EXCEPT !.sellers = <<[commertialOffer |-> <<>>]>>]>> }

RegistrosCalculo ==
    {RegistroCalculo(nm, <<Item(EAN_A, <<>>, <<>>, o)>>) : nm \in NomesCalculo, o \in OfertasCalculo}
        \cup {RegistroCalculo(nm, its) : nm \in NomesCalculo, its \in SemNivel}

\* Records flagged is_not_found: the resolver's markers, and flagged records that carry
\* any of the other fields
Marcados ==
    {NotFound(c) : c \in Codigos}
        \cup {[r EXCEPT !.is_not_found = TRUE] :
                 r \in {RegistroCalculo(nm, <<Item(EAN_A, <<>>, <<>>, o)>>) :
                           nm \in NomesCalculo, o \in {NoOffer, Oferta10, OfertaZero}}}
        \cup {[RegistroCalculo(nm, its) EXCEPT !.is_not_found = TRUE] :
                 nm \in NomesCalculo, its \in SemNivel}

\* A tracked product as an earlier run left it, with the prior price `anterior`
ProdutoCalculo(anterior) ==
    [NovoProduto(EAN_A) EXCEPT
        !.preco_atual = anterior,
        !.status = IF anterior = <<>> THEN "Pendente" ELSE "Monitorando",
        !.variacao = IF anterior = <<>> THEN <<>> ELSE <<250>>]

InitCalculo ==
    /\ arquivo = <<>>
    /\ relogio = 1
    /\ nRuns = 0
    /\ nOps = 0
    /\ pc = "calculo"
    /\ produtos = <<>>
    /\ carregados = <<>>
    /\ eans = <<>>
    /\ all_products_enriched = <<>>
    /\ lote_i = 0
    /\ lote_j = 0
    /\ found_products_map = EmptyDict
    /\ eans_not_found_in_batch = <<>>
    /\ results = <<>>
    /\ codigos = <<>>
    /\ cod_k = 0
    /\ ind_results = <<>>
    /\ retorno = ""
    /\ lotes_falhos = {}
    /\ log = <<>>
    /\ saida = ""
    /\ chamada = NenhumaChamada

\* calcular_variacao(preco_atual, preco_anterior); it always returns a float
chamar_calcular_variacao(atual, anterior) ==
    /\ pc = "calculo"
    /\ chamada' = [fn |-> "calcular_variacao",
                   args |-> << <<atual>>, anterior >>,
                   ret |-> <<calcular_variacao(<<atual>>, anterior)>>]
    /\ UNCHANGED <<arquivo, relogio, nRuns, nOps, pc, produtos, carregados, saida>>
    /\ UNCHANGED resolverVars

\* extrair_preco_e_nome(resultado)
chamar_extrair_preco_e_nome(resultado) ==
    /\ pc = "calculo"
    /\ chamada' = [fn |-> "extrair_preco_e_nome",
                   args |-> <<resultado>>,
                   ret |-> extrair_preco_e_nome(resultado)]
    /\ UNCHANGED <<arquivo, relogio, nRuns, nOps, pc, produtos, carregados, saida>>
    /\ UNCHANGED resolverVars

\* atualizar_produtos: resultados_por_ean of the one record, then the body of the loop
\* for the one product; ret is the product after it
chamar_atualizar_produto(produto, resultado) ==
    /\ pc = "calculo"
    /\ chamada' = [fn |-> "atualizar_produtos",
                   args |-> <<produto, resultado>>,
                   ret |-> <<AtualizarProduto(produto, ResultadosPorEan(<<resultado>>),
                                              relogio)>>]
    /\ UNCHANGED <<arquivo, relogio, nRuns, nOps, pc, produtos, carregados, saida>>
    /\ UNCHANGED resolverVars

\* The records the loop body is applied to: a price in thousandths under 'price'
RegistroComPreco(novo) ==
    RegistroCalculo(<<"Nome A", "Produto A">>,
                    <<Item(EAN_A, <<>>, <<>>, [NoOffer EXCEPT !.price = <<novo * 10>>])>>)

NextCalculo ==
    \/ \E atual \in PrecosCalculo, anterior \in Anteriores :
          chamar_calcular_variacao(atual, anterior)
    \/ \E resultado \in RegistrosCalculo \cup Marcados :
          chamar_extrair_preco_e_nome(resultado)
    \/ \E anterior \in Anteriores, novo \in PrecosCalculo :
          chamar_atualizar_produto(ProdutoCalculo(anterior), RegistroComPreco(novo))

SpecCalculo == InitCalculo /\ [][NextCalculo]_vars

-----------------------------------------------------------------------------
(* app.py: adicionar_produtos_em_lote.  A line of the imported list is written as   *)
(* the sequence of its characters, so that strip() and isdigit() act on it as they  *)
(* do on a str; the product keeps the str of the stripped line.                     *)

MaxLinhas == 3       \* lines of one imported list

Digitos == {"0", "1", "2", "3", "4", "5", "6", "7", "8", "9"}
Espacos == {" ", "\t"}

\* str.strip() left as the identity
stripMut(s) == s

\* str.strip(): leading and trailing whitespace removed
RECURSIVE strip(_)
strip(s) ==
    IF s = <<>> THEN s
    ELSE IF s[1] \in Espacos THEN strip(Tail(s))
    ELSE IF s[Len(s)] \in Espacos THEN strip(SubSeq(s, 1, Len(s) - 1))
    ELSE s

\* str.isdigit(): at least one character, and all of them digits
isdigit(s) == s # <<>> /\ \A i \in 1..Len(s) : s[i] \in Digitos

\* the str made of the characters s
RECURSIVE Texto(_)
Texto(s) == IF s = <<>> THEN "" ELSE s[1] \o Texto(Tail(s))

\* the lines an import is fed with
L_A == <<"7", "8", "9", "1", "2", "3", "4", "5", "6", "7", "8", "9", "0">>
L_LONGO == L_A \o <<"1">>
L_CURTO == <<"1", "2", "3">>
Linhas ==
    {<<>>, <<" ", "\t">>, L_A, L_LONGO, L_CURTO, <<" ">> \o L_CURTO \o <<"\t">>,
     <<"1", "2", "a">>, <<"1", " ", "3">>}
Listas == UNION {[1..n -> Linhas] : n \in 0..MaxLinhas}

\* One iteration of `for ean in eans` with the `eans_existentes.add(ean)` forgotten
PassoLoteMut(acc, bruto) ==
    LET ean == strip(bruto)
    IN IF ean = <<>> THEN acc
       ELSE IF ~isdigit(ean)
       THEN [acc EXCEPT ![5] = Append(@, Texto(ean) \o " (não é numérico)")]
       ELSE IF Texto(ean) \in acc[2]
       THEN [acc EXCEPT ![4] = @ + 1]
       ELSE [acc EXCEPT ![1] = Append(@, NovoProduto(Texto(ean))), ![3] = @ + 1]

\* One iteration of `for ean in eans`, on the locals
\* <<produtos, eans_existentes, adicionados, duplicados, erros>>
PassoLote(acc, bruto) ==
    LET ean == strip(bruto)
    IN IF ean = <<>> THEN acc
       ELSE IF ~isdigit(ean)
       THEN [acc EXCEPT ![5] = Append(@, Texto(ean) \o " (não é numérico)")]
       ELSE IF Texto(ean) \in acc[2]
       THEN [acc EXCEPT ![4] = @ + 1]
       ELSE [acc EXCEPT ![1] = Append(@, NovoProduto(Texto(ean))),
                        ![2] = @ \cup {Texto(ean)},
                        ![3] = @ + 1]

\* `for ean in eans` over the list linhas, from the locals acc
RECURSIVE LoopLote(_, _)
LoopLote(acc, linhas) ==
    IF linhas = <<>> THEN acc ELSE LoopLote(PassoLote(acc, Head(linhas)), Tail(linhas))

\* adicionar_produtos_em_lote(eans), eans being linhas: the list is loaded, extended and saved, and the
\* counts are returned to the caller
adicionar_produtos_em_lote(linhas) ==
    /\ pc = "idle"
    /\ nOps < MaxOps
    /\ nOps' = nOps + 1
    /\ \E fim \in {LoopLote(<<arquivo, {arquivo[i].ean : i \in 1..Len(arquivo)},
                               0, 0, <<>> >>, linhas)} :
         /\ Len(fim[1]) <= MaxProdutos
         /\ carregados' = arquivo
         /\ produtos' = fim[1]
         /\ arquivo' = fim[1]
         /\ chamada' = [fn |-> "adicionar_produtos_em_lote", args |-> <<linhas>>,
                        ret |-> <<fim[3], fim[4], fim[5]>>]
    /\ pc' = "importado"
    /\ UNCHANGED <<relogio, nRuns, saida>>
    /\ UNCHANGED resolverVars

\* the caller has shown the counts and is back at the page
retornar_lote ==
    /\ pc = "importado"
    /\ pc' = "idle"
    /\ produtos' = <<>>
    /\ carregados' = <<>>
    /\ chamada' = NenhumaChamada
    /\ UNCHANGED <<arquivo, relogio, nRuns, nOps, saida>>
    /\ UNCHANGED resolverVars

\* The registry under all its operations, from an empty list or from a list of one
\* product that a run has already priced
InitRegistro ==
    /\ arquivo \in {<<>>, <<ProdutoCalculo(<<10000>>)>>}
    /\ relogio = 0
    /\ nRuns = 0
    /\ nOps = 0
    /\ pc = "idle"
    /\ produtos = <<>>
    /\ carregados = <<>>
    /\ eans = <<>>
    /\ all_products_enriched = <<>>
    /\ lote_i = 0
    /\ lote_j = 0
    /\ found_products_map = EmptyDict
    /\ eans_not_found_in_batch = <<>>
    /\ results = <<>>
    /\ codigos = <<>>
    /\ cod_k = 0
    /\ ind_results = <<>>
    /\ retorno = ""
    /\ lotes_falhos = {}
    /\ log = <<>>
    /\ saida = ""
    /\ chamada = NenhumaChamada

NextRegistro ==
    \/ \E ean \in Codigos : adicionar_produto(ean)
    \/ \E linhas \in Listas : adicionar_produtos_em_lote(linhas)
    \/ retornar_lote
    \/ \E ean \in Codigos : remover_produto(ean)
    \/ atualizar_inicio_unico
    \/ lote_requisicao
    \/ lote_ean
    \/ individual
    \/ processar
    \/ excecao
    \/ retornar

SpecRegistro == InitRegistro /\ [][NextRegistro]_vars

-----------------------------------------------------------------------------
(* Overlapping invocations.  Nothing locks produtos.json: while an update run is    *)
(* between its carregar_produtos and its salvar_produtos, another invocation (the   *)
(* page adding, importing or removing, or a second update run) may load the         *)
(* document, change it and save it.  The other invocation is taken as one step.     *)

MaxLinhasSobreposto == 1    \* lines of a list imported during a run

\* the run has loaded the document and has not saved it yet, and no other invocation
\* has come in between so far (one overlap per behaviour)
EntreCargaESalva ==
    /\ pc \in {"lote", "lote_ean", "individual", "processar", "excecao"}
    /\ chamada = NenhumaChamada

\* adicionar_produto(ean) by the page, during the run
sobreposto_adicionar(ean) ==
    /\ EntreCargaESalva
    /\ nOps < MaxOps
    /\ Len(arquivo) < MaxProdutos
    /\ nOps' = nOps + 1
    /\ IF \E i \in 1..Len(arquivo) : arquivo[i].ean = ean
       THEN /\ arquivo' = arquivo
            /\ chamada' = [fn |-> "adicionar_produto", args |-> <<ean>>, ret |-> <<FALSE>>]
       ELSE /\ arquivo' = Append(arquivo, NovoProduto(ean))
            /\ chamada' = [fn |-> "adicionar_produto", args |-> <<ean>>, ret |-> <<TRUE>>]
    /\ UNCHANGED <<relogio, nRuns, pc, produtos, carregados, saida>>
    /\ UNCHANGED resolverVars

\* adicionar_produtos_em_lote(eans) by the page, during the run
sobreposto_lote(linhas) ==
    /\ EntreCargaESalva
    /\ nOps < MaxOps
    /\ nOps' = nOps + 1
    /\ \E fim \in {LoopLote(<<arquivo, {arquivo[i].ean : i \in 1..Len(arquivo)},
                               0, 0, <<>> >>, linhas)} :
         /\ Len(fim[1]) <= MaxProdutos
         /\ arquivo' = fim[1]
         /\ chamada' = [fn |-> "adicionar_produtos_em_lote", args |-> <<linhas>>,
                        ret |-> <<fim[3], fim[4], fim[5]>>]
    /\ UNCHANGED <<relogio, nRuns, pc, produtos, carregados, saida>>
    /\ UNCHANGED resolverVars

\* remover_produto(ean) by the page, during the run
sobreposto_remover(ean) ==
    /\ EntreCargaESalva
    /\ nOps < MaxOps
    /\ nOps' = nOps + 1
    /\ \E filtrados \in {LET NotEan(p) == p.ean # ean IN SelectSeq(arquivo, NotEan)} :
         /\ arquivo' = filtrados
         /\ chamada' = [fn |-> "remover_produto", args |-> <<ean>>,
                        ret |-> <<Len(filtrados) < Len(arquivo)>>]
    /\ UNCHANGED <<relogio, nRuns, pc, produtos, carregados, saida>>
    /\ UNCHANGED resolverVars

\* a second atualizar_produtos, from its load to its save, during the run; its resolver
\* raised, so that it stamps what it loaded (the outcome that needs no upstream answer)
sobreposto_atualizar ==
    /\ EntreCargaESalva
    /\ nOps < MaxOps
    /\ nOps' = nOps + 1
    /\ arquivo # <<>>
    /\ arquivo' = [n \in 1..Len(arquivo) |-> MarcarErro(arquivo[n], relogio)]
    /\ chamada' = [fn |-> "atualizar_produtos", args |-> <<>>, ret |-> <<>>]
    /\ UNCHANGED <<relogio, nRuns, pc, produtos, carregados, saida>>
    /\ UNCHANGED resolverVars

NextSobreposto ==
    \/ \E ean \in Codigos : adicionar_produto(ean)
    \/ atualizar_inicio_unico
    \/ lote_requisicao
    \/ lote_ean
    \/ individual
    \/ processar
    \/ excecao
    \/ retornar
    \/ \E ean \in Codigos : sobreposto_adicionar(ean)
    \/ \E linhas \in {l \in Listas : Len(l) <= MaxLinhasSobreposto} : sobreposto_lote(linhas)
    \/ \E ean \in Codigos : sobreposto_remover(ean)
    \/ sobreposto_atualizar

SpecSobreposto == Init /\ [][NextSobreposto]_vars

-----------------------------------------------------------------------------
(* The matching of a response page called directly, on pages of up to MaxPagina     *)
(* entries in every order: the loops of process_eans_in_batch that fill              *)
(* found_products_map, and one iteration of process_short_codes_individually; one  *)
(* call per behaviour.                                                              *)

MaxPagina == 3       \* entries of a response page

IMG_A == "https://img.example/7891234567890-1.jpg"

B_ImagemA == Produto("p4", "Imagem A", <<Item("", <<>>, <<IMG_A>>, Oferta10)>>)
B_OutroCodigoImagemA ==
    Produto("p5", "Outro codigo", <<Item("7899999999999", <<>>, <<IMG_A>>, Oferta10)>>)
B_DoisItens ==
    Produto("p6", "Dois itens", <<Item("", <<>>, <<IMG_A>>, Oferta10),
                                  Item(EAN_B, <<>>, <<>>, Oferta10)>>)
B_Curto == Produto("p7", "Curto", <<Item(CURTO, <<>>, <<>>, Oferta10)>>)

Entradas == {S_A, S_B, S_C, B_ImagemA, B_OutroCodigoImagemA, B_DoisItens, B_Curto}
PaginasBusca == UNION {[1..n -> Entradas] : n \in 0..MaxPagina}
LotesBusca == {<<EAN_A>>, <<EAN_A, EAN_B>>, <<EAN_B, EAN_A>>}

\* found_products_map[e] = product
Poe(map, e, product) == [x \in DOMAIN map \cup {e} |-> IF x = e THEN product ELSE map[x]]

\* The body of `for item in product.get('items', [])` with the test
\* `if ean_in_batch not in found_products_map` forgotten
PassoItemMut(map, product, item, batch) ==
    IF item.ean # "" /\ InSeq(item.ean, batch)
    THEN Poe(map, item.ean, product)
    ELSE IF item.ean = ""
    THEN LET novos == {e \in Range(batch) :
                          \E u \in 1..Len(item.images) : Contains(e, item.images[u])}
         IN [x \in DOMAIN map \cup novos |-> IF x \in novos THEN product ELSE map[x]]
    ELSE map

\* The body of `for item in product.get('items', [])`: strategy 1 assigns and goes to
\* the next item; strategy 2, for an item with no 'ean', assigns every code of the
\* batch that occurs in an image URL and is not a key yet
PassoItem(map, product, item, batch) ==
    IF item.ean # "" /\ InSeq(item.ean, batch)
    THEN Poe(map, item.ean, product)
    ELSE IF item.ean = ""
    THEN LET novos == {e \in Range(batch) :
                          /\ e \notin DOMAIN map
                          /\ \E u \in 1..Len(item.images) : Contains(e, item.images[u])}
         IN [x \in DOMAIN map \cup novos |-> IF x \in novos THEN product ELSE map[x]]
    ELSE map

\* `for item in product.get('items', [])`
RECURSIVE LacoItens(_, _, _, _)
LacoItens(map, product, items, batch) ==
    IF items = <<>> THEN map
    ELSE LacoItens(PassoItem(map, product, Head(items), batch), product, Tail(items), batch)

\* `for product in products_page`, from found_products_map = {}
RECURSIVE LacoPagina(_, _, _)
LacoPagina(map, page, batch) ==
    IF page = <<>> THEN map
    ELSE LacoPagina(LacoItens(map, Head(page), Head(page).items, batch), Tail(page), batch)

\* One iteration of `for i, code in enumerate(short_codes)` on the page the search
\* returned and the answer det of the detail lookup: found_product and the record
\* appended to results
IteracaoIndividual(page, code, det) ==
    LET found_product == FoundProduct(page, code)
    IN << found_product,
          IF found_product # <<>> THEN Individual(code, det) ELSE NotFound(code) >>

InitBusca ==
    /\ arquivo = <<>>
    /\ relogio = 1
    /\ nRuns = 0
    /\ nOps = 0
    /\ pc = "busca"
    /\ produtos = <<>>
    /\ carregados = <<>>
    /\ eans = <<>>
    /\ all_products_enriched = <<>>
    /\ lote_i = 0
    /\ lote_j = 0
    /\ found_products_map = EmptyDict
    /\ eans_not_found_in_batch = <<>>
    /\ results = <<>>
    /\ codigos = <<>>
    /\ cod_k = 0
    /\ ind_results = <<>>
    /\ retorno = ""
    /\ lotes_falhos = {}
    /\ log = <<>>
    /\ saida = ""
    /\ chamada = NenhumaChamada

\* process_eans_in_batch, lines 331-352, on a page and a batch
chamar_mapear(page, batch) ==
    /\ pc = "busca"
    /\ chamada' = [fn |-> "found_products_map", args |-> <<page, batch>>,
                   ret |-> <<LacoPagina(EmptyDict, page, batch)>>]
    /\ pc' = "fim"
    /\ UNCHANGED <<arquivo, relogio, nRuns, nOps, produtos, carregados, saida>>
    /\ UNCHANGED resolverVars

\* process_short_codes_individually, lines 405-437, on a page and a code
chamar_individual(page, code, det) ==
    /\ pc = "busca"
    /\ chamada' = [fn |-> "found_product", args |-> <<page, code>>,
                   ret |-> IteracaoIndividual(page, code, det)]
    /\ pc' = "fim"
    /\ UNCHANGED <<arquivo, relogio, nRuns, nOps, produtos, carregados, saida>>
    /\ UNCHANGED resolverVars

NextBusca ==
    \/ \E page \in PaginasBusca, batch \in LotesBusca : chamar_mapear(page, batch)
    \/ \E page \in PaginasBusca, code \in {EAN_A, CURTO} :
          \E det \in (IF FoundProduct(page, code) = <<>> THEN {FALHA}
                       ELSE {FALHA, Ok(<<Detalhe(FoundProduct(page, code)[1].productId,
                                                 Oferta10)>>)}) :
             chamar_individual(page, code, det)

SpecBusca == InitBusca /\ [][NextBusca]_vars

-----------------------------------------------------------------------------
(* Update runs over a document that earlier runs have written: a barcode that was   *)
(* priced n times, its history as long, and a short code just added.                *)

\* the product after n successful price reads, the prices alternating
Guardado(ean, n) ==
    IF n = 0 THEN NovoProduto(ean)
    ELSE LET h == HistoricoDe(n)
         IN [NovoProduto(ean) EXCEPT
                !.nome = "Produto A",
                !.preco_atual = <<h[n].preco>>,
                !.preco_anterior = IF n = 1 THEN <<>> ELSE <<h[n - 1].preco>>,
                !.historico = LastN(h, MAX_HISTORICO),
                !.variacao = IF n = 1 THEN <<>>
                             ELSE <<calcular_variacao(<<h[n].preco>>, <<h[n - 1].preco>>)>>,
                !.ultima_verificacao = <<0>>,
                !.status = "Monitorando"]

LeiturasGuardadas == {0, 1, MAX_HISTORICO - 1, MAX_HISTORICO, MaxHist}

InitCorridas ==
    /\ \E n \in LeiturasGuardadas : arquivo = <<Guardado(EAN_A, n), NovoProduto(CURTO)>>
    /\ relogio = 0
    /\ nRuns = 0
    /\ nOps = 0
    /\ pc = "idle"
    /\ produtos = <<>>
    /\ carregados = <<>>
    /\ eans = <<>>
    /\ all_products_enriched = <<>>
    /\ lote_i = 0
    /\ lote_j = 0
    /\ found_products_map = EmptyDict
    /\ eans_not_found_in_batch = <<>>
    /\ results = <<>>
    /\ codigos = <<>>
    /\ cod_k = 0
    /\ ind_results = <<>>
    /\ retorno = ""
    /\ lotes_falhos = {}
    /\ log = <<>>
    /\ saida = ""
    /\ chamada = NenhumaChamada

NextCorridas ==
    \/ atualizar_inicio
    \/ lote_requisicao
    \/ lote_ean
    \/ individual
    \/ processar
    \/ excecao
    \/ retornar

SpecCorridas == InitCorridas /\ [][NextCorridas]_vars

-----------------------------------------------------------------------------
(* Vocabulary of the properties *)

IsBulk(ev) == ev.tipo = "bulk"

\* the bulk requests of the run, in order
Bulks == SelectSeq(log, IsBulk)

\* the result r stands for the code c: the marker that carries c, or the record the
\* resolver labelled with the search of c
Representa(r, c) ==
    IF r.is_not_found THEN r.ean = c
    ELSE r.target_name \in {"Busca EAN: " \o c, "Busca Código: " \o c}

\* the positions of the results that stand for c in what scrape_by_eans returns
ResultadosDe(c) ==
    {n \in 1..Len(all_products_enriched) : Representa(all_products_enriched[n], c)}

TemBulk(c) == \E n \in 1..Len(log) : log[n].tipo = "bulk" /\ InSeq(c, log[n].termos)
TemIndividual(c) == \E n \in 1..Len(log) : log[n] = EvIndividual(c)
TemDetail(c) == \E n \in 1..Len(log) : log[n].tipo = "detail" /\ log[n].termos = <<c>>

\* the index of the batch that carries the 13-digit code c
LoteDe(c) ==
    CHOOSE i \in 1..NumLotes(valid_eans(eans)) : InSeq(c, Lote(valid_eans(eans), i))

\* scrape_by_eans has returned to atualizar_produtos
Resolvido == pc = "processar"

\* atualizar_produtos has saved after its loop over the products
Completo == pc = "done" /\ saida = "completo"

-----------------------------------------------------------------------------
(* C1: scrape_by_eans returns exactly one result per input code: as many results as  *)
(* codes, and each code stood for by exactly one result, a record or a marker.       *)
(* Stated as claimed; the code drops every code longer than 13 characters.           *)
C1_UmResultadoPorCodigo ==
    Resolvido =>
        /\ Len(all_products_enriched) = Len(eans)
        /\ \A c \in Range(eans) : Cardinality(ResultadosDe(c)) = 1

(* C2: a code of length 13 is in a bulk request before any individual request for   *)
(* it; a code of any other length gets an individual request and is in no bulk       *)
(* request.  Stated as claimed; a code longer than 13 gets no request at all.        *)
C2_Roteamento ==
    /\ \A n \in 1..Len(log) :
         /\ log[n].tipo = "individual" /\ Len(log[n].termos[1]) = 13
              => \E m \in 1..(n - 1) :
                    log[m].tipo = "bulk" /\ InSeq(log[n].termos[1], log[m].termos)
         /\ log[n].tipo = "bulk"
              => \A k \in 1..Len(log[n].termos) : Len(log[n].termos[k]) = 13
    /\ Resolvido =>
         \A c \in Range(eans) :
            IF Len(c) = 13 THEN TemBulk(c) ELSE TemIndividual(c) /\ ~TemBulk(c)

\* the codes of the first n bulk requests, in order
RECURSIVE TermosDosBulks(_)
TermosDosBulks(n) == IF n = 0 THEN <<>> ELSE TermosDosBulks(n - 1) \o Bulks[n].termos

(* C3: the bulk requests carry consecutive slices of the 13-digit codes: none has    *)
(* more than 48 codes, together they are a prefix of the list at any time and the    *)
(* whole list once the resolver returns, so each code is in exactly one of them.     *)
C3_LotesDe48 ==
    /\ \A n \in 1..Len(Bulks) :
         Len(Bulks[n].termos) >= 1 /\ Len(Bulks[n].termos) <= 48
    /\ LET ts == TermosDosBulks(Len(Bulks))
       IN /\ Len(ts) <= Len(valid_eans(eans))
          /\ ts = SubSeq(valid_eans(eans), 1, Len(ts))
          /\ Resolvido => ts = valid_eans(eans)
    /\ Resolvido =>
         \A c \in Range(valid_eans(eans)) :
            Cardinality({n \in 1..Len(Bulks) : InSeq(c, Bulks[n].termos)}) = 1

\* 49 codes were resolved in two bulk requests, the first one full
C3_Witness ==
    /\ Resolvido
    /\ Len(valid_eans(eans)) = 49
    /\ Len(Bulks) = 2
    /\ Len(Bulks[1].termos) = 48
    /\ Bulks[2].termos = <<Enchimento(49)>>

(* C4: when the bulk request of a batch returned None, every code of the batch gets  *)
(* a marker and nothing else, no individual search and no detail lookup is issued    *)
(* for a code of the batch, and the run goes on: right after the failure the         *)
(* resolver is at the next batch, at the short codes or back in the caller, and a    *)
(* run that returns has sent every batch and searched every short code.              *)
C4_LoteFalhoSoMarca ==
    /\ \A i \in lotes_falhos :
         \A c \in Range(Lote(valid_eans(eans), i)) :
            /\ ~TemIndividual(c)
            /\ ~TemDetail(c)
            /\ Resolvido =>
                 /\ Cardinality(ResultadosDe(c)) = 1
                 /\ \A n \in ResultadosDe(c) : all_products_enriched[n] = NotFound(c)
    /\ \A i \in lotes_falhos :
         (Len(log) >= 2 /\ log[Len(log) - 1] = EvBulk(Lote(valid_eans(eans), i)))
            => /\ log[Len(log)] = EvSleep
               /\ pc \in {"lote", "individual", "processar", "done"}
               /\ pc = "lote" => lote_i = i + 1
               /\ i < NumLotes(valid_eans(eans)) => pc = "lote"
               /\ pc = "individual" => retorno = "curtos" /\ codigos = short_codes(eans)
               /\ pc = "done" => saida = "completo"
    /\ (Resolvido /\ lotes_falhos # {}) =>
         /\ \A i \in 1..NumLotes(valid_eans(eans)) :
               \E n \in 1..Len(log) : log[n] = EvBulk(Lote(valid_eans(eans), i))
         /\ \A c \in Range(short_codes(eans)) : TemIndividual(c)

\* the first of two batches failed, the second was sent and the short code searched
C4_Witness ==
    /\ Resolvido
    /\ lotes_falhos = {1}
    /\ Len(Bulks) = 2
    /\ TemIndividual(CURTO)
    /\ all_products_enriched[1] = NotFound(Enchimento(1))
    /\ TemDetail(Enchimento(49))

(* C5: after a bulk request that succeeded, a code the bulk page did not resolve is  *)
(* searched individually, and it is marked unresolved only when that individual      *)
(* search matched nothing (so no detail lookup followed it).  Stated as claimed;     *)
(* the individual path also marks a code it matched when the detail lookup fails.    *)
C5_EscaladaAntesDeMarcar ==
    Resolvido =>
        \A c \in Range(valid_eans(eans)) :
            LoteDe(c) \notin lotes_falhos =>
                /\ TemIndividual(c) \/ TemDetail(c)
                /\ (\E n \in ResultadosDe(c) : all_products_enriched[n].is_not_found)
                      => TemIndividual(c) /\ ~TemDetail(c)

\* the price extracted from the result the resolver returned for c (<<>>: none)
PrecoResolvido(c) ==
    IF ResultadosDe(c) = {} THEN <<>>
    ELSE extrair_preco_e_nome(all_products_enriched[MinOf(ResultadosDe(c))])[1]

(* C6: after a completed run every product whose code the resolver resolved to a     *)
(* record with a valid price is 'Monitorando' at that price.  Stated as claimed;     *)
(* the caller files each record under the first barcode of its sub-items, not under  *)
(* the code that was searched.                                                       *)
C6_JuntaPeloCodigoBuscado ==
    Completo =>
        \A n \in 1..Len(arquivo) :
            Truthy(PrecoResolvido(arquivo[n].ean)) =>
                /\ arquivo[n].status = "Monitorando"
                /\ arquivo[n].preco_atual = PrecoResolvido(arquivo[n].ean)

(* C7: after a completed run the status of each product the resolver answered for    *)
(* is decided by that answer alone: 'Monitorando' for a valid price, 'Não            *)
(* Encontrado' for a marker, 'Erro' otherwise; and no product is left 'Pendente'.    *)
(* Stated as claimed; it fails with the join of C6.                                  *)
C7_StatusPeloResultado ==
    Completo =>
        \A n \in 1..Len(arquivo) :
            /\ arquivo[n].status # "Pendente"
            /\ ResultadosDe(arquivo[n].ean) # {} =>
                 arquivo[n].status =
                    IF Truthy(PrecoResolvido(arquivo[n].ean)) THEN "Monitorando"
                    ELSE IF all_products_enriched[MinOf(ResultadosDe(arquivo[n].ean))].is_not_found
                    THEN "Não Encontrado"
                    ELSE "Erro"

(* C8: a code for which a detail lookup was issued was matched, so its result is     *)
(* never a marker: it is the detail record or, when the lookup failed, the summary,  *)
(* either one labelled with the search.  Stated as claimed; the individual path      *)
(* returns a marker when the lookup fails.                                           *)
C8_ResumoNuncaPerdido ==
    Resolvido =>
        \A c \in Range(eans) :
            TemDetail(c) =>
                /\ ResultadosDe(c) # {}
                /\ \A n \in ResultadosDe(c) :
                      /\ ~all_products_enriched[n].is_not_found
                      /\ all_products_enriched[n].target_name # ""

(* C9: when the resolver raised, the saved list is the loaded list with every        *)
(* product's status 'Erro' and ultima_verificacao the current time, and nothing      *)
(* else changed: prices, variation, name and history are as loaded.                  *)
C9_ExcecaoMarcaErro ==
    (pc = "done" /\ saida = "erro") =>
        /\ Len(arquivo) = Len(carregados)
        /\ produtos = arquivo
        /\ \A n \in 1..Len(arquivo) :
              /\ arquivo[n].status = "Erro"
              /\ arquivo[n].ultima_verificacao = <<relogio>>
              /\ arquivo[n].ean = carregados[n].ean
              /\ arquivo[n].preco_atual = carregados[n].preco_atual
              /\ arquivo[n].preco_anterior = carregados[n].preco_anterior
              /\ arquivo[n].variacao = carregados[n].variacao
              /\ arquivo[n].nome = carregados[n].nome
              /\ arquivo[n].historico = carregados[n].historico

\* the resolver raised in the second run, over a product the first run had priced
C9_Witness ==
    /\ pc = "done"
    /\ saida = "erro"
    /\ \E n \in 1..Len(arquivo) :
          /\ carregados[n].status = "Monitorando"
          /\ carregados[n].preco_atual = <<1000>>
          /\ carregados[n].historico # <<>>
          /\ carregados[n].ultima_verificacao # arquivo[n].ultima_verificacao

(* C10: an append puts the new point last, whatever its price, and keeps the most    *)
(* recent 30: the new history has min(len + 1, 30) points, its last is the new       *)
(* point and the ones before it are the last points of the old history in their      *)
(* order; so after an append the history never has more than 30 points.              *)
C10_HistoricoJanela ==
    (pc = "historico" /\ nOps > 0) =>
        LET h == carregados[1].historico
            g == arquivo[1].historico
            m == IF Len(h) + 1 < 30 THEN Len(h) + 1 ELSE 30
        IN /\ Len(g) = m
           /\ Len(g) <= 30
           /\ g[m] = [data |-> relogio, preco |-> saida]
           /\ \A k \in 1..(m - 1) : g[k] = h[Len(h) - (m - 1) + k]

\* a 31st point was appended to a history of 30, at the price of the point before it
C10_Witness ==
    /\ pc = "historico"
    /\ nOps > 0
    /\ Len(carregados[1].historico) = 30
    /\ Len(arquivo[1].historico) = 30
    /\ arquivo[1].historico[30].preco = arquivo[1].historico[29].preco
    /\ arquivo[1].historico[1] = carregados[1].historico[2]

\* the direct call in chamada, by function
ChamouVariacao == chamada.fn = "calcular_variacao"
ChamouExtrair == chamada.fn = "extrair_preco_e_nome"
ChamouAtualizar == chamada.fn = "atualizar_produtos"

\* the loop body read a valid price for the product
LeuPreco == ChamouAtualizar /\ chamada.ret[1].status = "Monitorando"

(* C11: with no previous price, or a previous price of zero, the variation is None   *)
(* and never 0: both the variacao stored by a successful price read and the value    *)
(* calcular_variacao returns.  Stated as claimed; calcular_variacao returns 0.0.     *)
C11_VariacaoIndefinida ==
    /\ (ChamouVariacao /\ ~Truthy(chamada.args[2])) => chamada.ret = <<>>
    /\ (LeuPreco /\ ~Truthy(chamada.args[1].preco_atual)) => chamada.ret[1].variacao = <<>>

\* v, in hundredths of a percent, is ((new - old) / old) * 100 rounded to 2 places, with
\* its sign: the closest hundredth to the exact quotient (prices in centavos, old > 0)
EhVariacao(v, new, old) ==
    LET erro == v * old - (new - old) * 10000
    IN /\ 2 * erro <= old /\ 2 * (0 - erro) <= old
       /\ new > old => v > 0
       /\ new < old => v < 0
       /\ new = old => v = 0

De100Para110 == ChamouVariacao /\ chamada.args = << <<11000>>, <<10000>> >>

(* C13 as stated: a previous price of 100.00 and a new price of 110.00 give a        *)
(* variation of 11.0 percent.                                                        *)
C13_OnzePorCento == De100Para110 => chamada.ret = <<1100>>

(* C13, amended: a previous price of 100.00 and a new price of 110.00 give a         *)
(* variation of 10.0 percent, which is ((110.00 - 100.00) / 100.00) * 100.           *)
C13_DezPorCento == De100Para110 => chamada.ret = <<1000>>

\* the call was made and returned 10.0
C13_Witness == De100Para110 /\ chamada.ret = <<1000>>

\* the record extrair_preco_e_nome was called on, and what the call returned
Registro == chamada.args[1]
PrecoExtraido == chamada.ret[1]
NomeExtraido == chamada.ret[2]

(* C14: extrair_preco_e_nome on a record flagged is_not_found returns (None, None),  *)
(* whatever else the record holds: a name, sub-items, an offer with a price, or       *)
(* none of them.  The call returns for every such record.                            *)
C14_MarcadoDaNada ==
    (ChamouExtrair /\ Registro.is_not_found) => chamada.ret = << <<>>, <<>> >>

\* the call was made on a flagged record that has a name and an offer at 10.00
C14_Witness ==
    /\ ChamouExtrair
    /\ Registro.is_not_found
    /\ Registro.name = "Nome A"
    /\ Registro.items # <<>>
    /\ Registro.items[1].sellers # <<>>
    /\ Registro.items[1].sellers[1].commertialOffer # <<>>
    /\ Registro.items[1].sellers[1].commertialOffer[1].price = <<10000>>
    /\ chamada.ret = << <<>>, <<>> >>

\* the record has a commercial offer under its first sub-item's first seller
TemOferta ==
    /\ ChamouExtrair
    /\ ~Registro.is_not_found
    /\ Registro.items # <<>>
    /\ Registro.items[1].sellers # <<>>
    /\ Registro.items[1].sellers[1].commertialOffer # <<>>

OfertaDoRegistro == Registro.items[1].sellers[1].commertialOffer[1]

\* the price read from the value v of the chosen field: it, in centavos, when positive
Lido(v) == IF v # <<>> /\ v[1] > 0 THEN <<Round2(v[1])>> ELSE <<>>

(* C15: the price is read from 'price', or from 'Price' when 'price' is zero or      *)
(* absent; exactly when it is zero or absent under both casings the list price is    *)
(* read instead, from 'listPrice' or else 'ListPrice'.  price = 0 with               *)
(* listPrice = 15.90 yields 15.90, and a positive price never yields the list price. *)
C15_EscolhaDoPreco ==
    TemOferta =>
        LET o == OfertaDoRegistro
            usa_lista == ~Truthy(o.price) /\ ~Truthy(o.Price)
        IN /\ (~usa_lista /\ Truthy(o.price)) => PrecoExtraido = Lido(o.price)
           /\ (~usa_lista /\ ~Truthy(o.price)) => PrecoExtraido = Lido(o.Price)
           /\ (usa_lista /\ Truthy(o.listPrice)) => PrecoExtraido = Lido(o.listPrice)
           /\ (usa_lista /\ ~Truthy(o.listPrice)) => PrecoExtraido = Lido(o.ListPrice)
           /\ o = [NoOffer EXCEPT !.price = <<0>>, !.listPrice = <<15900>>]
                 => PrecoExtraido = <<1590>>

\* price = 0 and listPrice = 15.90, nothing else: 15.90 was extracted
C15_Witness ==
    /\ TemOferta
    /\ OfertaDoRegistro = [NoOffer EXCEPT !.price = <<0>>, !.listPrice = <<15900>>]
    /\ PrecoExtraido = <<1590>>

(* C16: for a record not flagged is_not_found the price returned is strictly         *)
(* positive or None, never zero or negative; and when the first sub-item, its first  *)
(* seller, its offer or a positive price is missing, the result is None with the     *)
(* record's name, 'name' or else 'productName'.  Stated as claimed; a positive price *)
(* below half a centavo is returned as 0.0.                                          *)
C16_PrecoPositivoOuNulo ==
    (ChamouExtrair /\ ~Registro.is_not_found) =>
        /\ PrecoExtraido = <<>> \/ PrecoExtraido[1] > 0
        /\ NomeExtraido =
              <<IF Registro.name # "" THEN Registro.name ELSE Registro.productName>>
        /\ ~TemOferta => PrecoExtraido = <<>>
        /\ (TemOferta /\ \A v \in {OfertaDoRegistro.price, OfertaDoRegistro.Price,
                                     OfertaDoRegistro.listPrice, OfertaDoRegistro.ListPrice} :
                            v = <<>> \/ v[1] <= 0)
              => PrecoExtraido = <<>>

\* the requests of the search API in the log, and the run having been cut by an exception
EhBusca(ev) == ev.tipo \in {"bulk", "individual"}
Interrompido == pc = "excecao" \/ saida = "erro"

\* a pause of one second lies in log strictly between the positions m and n
PausaEntre(m, n) == \E k \in (m + 1)..(n - 1) : log[k] = EvSleep

(* C17: the resolver pauses after every individual search request and after every    *)
(* batch, on the success and on the failure paths alike: between two bulk requests   *)
(* and between two individual search requests of a run there is a pause, every       *)
(* individual request of a run that was not cut short is followed by a pause, and a  *)
(* batch that is over, failed or not, has ended with a pause.                        *)
C17_PausaEntreRequisicoes ==
    /\ \A n \in 1..Len(log) :
          EhBusca(log[n]) =>
              /\ \A m \in 1..(n - 1) : log[m].tipo = log[n].tipo => PausaEntre(m, n)
              /\ (log[n].tipo = "individual" /\ ~Interrompido)
                    => PausaEntre(n, Len(log) + 1)
    /\ (pc = "lote" /\ lote_i > 1) => log[Len(log)] = EvSleep
    /\ (Resolvido /\ log # <<>>) => log[Len(log)] = EvSleep

\* a run of two batches, the first of which failed, and of one individual search, is over
C17_Witness ==
    /\ Resolvido
    /\ 1 \in lotes_falhos
    /\ \E m, n \in 1..Len(log) :
          m < n /\ log[m].tipo = "bulk" /\ log[n].tipo = "bulk" /\ log[m + 1] = EvSleep
    /\ \E n \in 1..Len(log) : log[n].tipo = "individual"

(* C18: a transport failure or a malformed response of a single upstream call (the   *)
(* bulk search, an individual search, a detail lookup), a JSON body of unexpected    *)
(* shape included, counts as no data for that call: no exception leaves              *)
(* scrape_by_eans, and no run ends with its products stamped 'Erro' because of it.   *)
(* Stated as claimed; a body of unexpected shape does raise out of the resolver.     *)
C18_FalhaNaoPropaga ==
    /\ pc # "excecao"
    /\ pc = "done" =>
          /\ saida # "erro"
          /\ \A n \in 1..Len(arquivo) :
                arquivo[n].status = "Erro" =>
                    n <= Len(carregados) /\ carregados[n].status = "Erro"

\* no two products of the list ps have the same 'ean'
SemRepetidos(ps) == \A i, j \in 1..Len(ps) : ps[i].ean = ps[j].ean => i = j

(* C19: from a persisted list of unique codes, after any sequence of                 *)
(* adicionar_produto, adicionar_produtos_em_lote, remover_produto and               *)
(* atualizar_produtos calls made one after the other, no two products of the         *)
(* persisted list have the same 'ean', also when an imported list repeats a code or *)
(* holds a code that is tracked already.                                             *)
C19_CodigoUnico == SemRepetidos(arquivo)

ChamouLote == pc = "importado" /\ chamada.fn = "adicionar_produtos_em_lote"

\* an import whose list named a tracked code and the same new code twice has returned
C19_Witness ==
    /\ ChamouLote
    /\ \E i, j \in 1..Len(chamada.args[1]) :
          /\ i < j
          /\ isdigit(strip(chamada.args[1][i]))
          /\ strip(chamada.args[1][i]) = strip(chamada.args[1][j])
          /\ \A n \in 1..Len(carregados) :
                carregados[n].ean # Texto(strip(chamada.args[1][i]))
    /\ \E k \in 1..Len(chamada.args[1]), n \in 1..Len(carregados) :
          carregados[n].ean = Texto(strip(chamada.args[1][k]))
    /\ chamada.ret[1] = 1
    /\ chamada.ret[2] = 2
    /\ Len(arquivo) = Len(carregados) + 1

\* a line of nothing but whitespace
EmBranco(s) == \A k \in 1..Len(s) : s[k] \in Espacos

(* C20: adicionar_produtos_em_lote reports exact counts and adds what it can: for    *)
(* every list, added + duplicates + the number of invalid entries is the number of   *)
(* non-blank entries; every numeric entry is tracked afterwards, whatever invalid    *)
(* entries the list holds; the persisted list is the one loaded followed by exactly  *)
(* 'added' new products, each 'Pendente' with an empty history.                      *)
C20_ContagemExata ==
    ChamouLote =>
        LET linhas == chamada.args[1]
            adicionados == chamada.ret[1]
            duplicados == chamada.ret[2]
            erros == chamada.ret[3]
        IN /\ adicionados + duplicados + Len(erros)
                 = Cardinality({i \in 1..Len(linhas) : ~EmBranco(linhas[i])})
           /\ \A i \in 1..Len(linhas) :
                 isdigit(strip(linhas[i])) =>
                     \E n \in 1..Len(arquivo) : arquivo[n].ean = Texto(strip(linhas[i]))
           /\ Len(arquivo) = Len(carregados) + adicionados
           /\ SubSeq(arquivo, 1, Len(carregados)) = carregados
           /\ \A n \in (Len(carregados) + 1)..Len(arquivo) :
                 arquivo[n].status = "Pendente" /\ arquivo[n].historico = <<>>

\* an import of an invalid line, then a new code, then a tracked one, onto a priced product
C20_Witness ==
    /\ ChamouLote
    /\ Len(chamada.args[1]) = 3
    /\ ~EmBranco(chamada.args[1][1]) /\ ~isdigit(strip(chamada.args[1][1]))
    /\ chamada.ret[1] = 1 /\ chamada.ret[2] = 1 /\ Len(chamada.ret[3]) = 1
    /\ carregados = <<ProdutoCalculo(<<10000>>)>>
    /\ arquivo = Append(carregados, NovoProduto(CURTO))

\* the run has saved the list it worked on
Salvou == pc = "done" /\ saida \in {"completo", "erro"}

(* C21: nothing guards the persisted document against overlapping invocations: the   *)
(* run saves the list it loaded, updated, over whatever another invocation saved     *)
(* since the load.  After the run's save the document holds the codes the run        *)
(* loaded, in their order, and each product as the run left it; an addition, an      *)
(* import, a removal or the stamps of a second run saved in between are gone.        *)
C21_SalvaAListaCarregada ==
    Salvou => /\ Eans(arquivo) = Eans(carregados)
              /\ arquivo = produtos

\* a product was added while the run was under way, and the run's save dropped it
C21_Witness ==
    /\ Salvou
    /\ chamada.fn = "adicionar_produto"
    /\ chamada.ret = <<TRUE>>
    /\ \A n \in 1..Len(arquivo) : arquivo[n].ean # chamada.args[1]

ChamouMapear == chamada.fn = "found_products_map"

\* the closed form of the mapping used in the run is what the loops compute
MapPageEhOLaco ==
    ChamouMapear => chamada.ret[1] = MapPage(chamada.args[1], chamada.args[2])

(* C22: in the matching of a bulk page, a code of the batch that some sub-item names  *)
(* in its code field is mapped to an entry with such a sub-item, whatever the order   *)
(* of entries, sub-items and image URLs: no image-URL match takes its place.  And an  *)
(* image-URL match counts only on a sub-item whose code field is absent or empty: a   *)
(* code mapped with no direct match is mapped to an entry with a sub-item of empty    *)
(* code field and an image URL holding the code, and is unmapped if there is none.     *)
C22_DiretoPrevalece ==
    ChamouMapear =>
        LET page == chamada.args[1]
            batch == chamada.args[2]
            map == chamada.ret[1]
        IN \A e \in Range(batch) :
             /\ DirectHits(page, e) # {}
                   => e \in DOMAIN map /\ \E p \in DirectHits(page, e) : map[e] = page[p]
             /\ (DirectHits(page, e) = {} /\ e \in DOMAIN map)
                   => \E n \in 1..Len(map[e].items) :
                        /\ map[e].items[n].ean = ""
                        /\ \E u \in 1..Len(map[e].items[n].images) :
                              Contains(e, map[e].items[n].images[u])
             /\ (\A p \in 1..Len(page) : \A n \in 1..Len(page[p].items) :
                    ~DirectItem(page[p].items[n], e) /\ page[p].items[n].ean # "")
                   => e \notin DOMAIN map

\* a page with a direct match for a code followed by an image-URL match for it
C22_Witness ==
    /\ ChamouMapear
    /\ chamada.args[1] = <<B_OutroCodigoImagemA, S_A, B_ImagemA>>
    /\ chamada.args[2] = <<EAN_A, EAN_B>>
    /\ chamada.ret[1] = [e \in {EAN_A} |-> S_A]

ChamouIndividual == chamada.fn = "found_product"

\* the positions in the page of the entries that match the code
Casam(page, code) == {p \in 1..Len(page) : ProductMatches(page[p], code)}

(* C23: in an individual search the entry chosen for the code is the first entry of   *)
(* the page, in response order, one of whose sub-items matches the code by its code   *)
(* field, by its first reference id or by an image URL that holds the code; no later  *)
(* entry is chosen, the record returned on a detail answer is that entry's, and with  *)
(* no matching entry nothing is chosen and the code is returned as unresolved.        *)
C23_PrimeiroQueCasa ==
    ChamouIndividual =>
        LET page == chamada.args[1]
            code == chamada.args[2]
            found_product == chamada.ret[1]
            resultado == chamada.ret[2]
        IN IF Casam(page, code) = {}
           THEN found_product = <<>> /\ resultado = NotFound(code)
           ELSE /\ found_product = <<page[MinOf(Casam(page, code))]>>
                /\ ~resultado.is_not_found
                      => resultado.productId = page[MinOf(Casam(page, code))].productId

\* a page whose second and third entries match the short code, by code field and by
\* reference id: the second was chosen
C23_Witness ==
    /\ ChamouIndividual
    /\ chamada.args = << <<S_A, B_Curto, S_C>>, CURTO >>
    /\ chamada.ret[1] = <<B_Curto>>
    /\ chamada.ret[2].productId = "p7"

\* the run is over and has saved: what it loaded is in carregados, what it saved in arquivo
Terminou == pc = "done" /\ saida \in {"completo", "erro"}

\* the price the completed run read for the n-th product: that of the record filed
\* under the product's code, <<>> when there is no such record, it is a marker or it
\* has no valid price
PrecoLido(n) ==
    LET mapa == ResultadosPorEan(all_products_enriched)
        ean == carregados[n].ean
    IN IF saida # "completo" \/ ean \notin DOMAIN mapa THEN <<>>
       ELSE IF mapa[ean].is_not_found THEN <<>>
       ELSE LET preco == extrair_preco_e_nome(mapa[ean])[1]
            IN IF preco # <<>> /\ preco[1] > 0 THEN preco ELSE <<>>

(* C24: a product's history changes only by a successful price read.  A run that     *)
(* read a valid price for the product appends exactly one point, the price at the     *)
(* time of the run, after the points that were there, of which only the oldest ones  *)
(* beyond 30 are dropped; a run that read none, or whose resolver raised, leaves the  *)
(* history as it was.                                                                *)
C24_HistoricoSoPorLeitura ==
    Terminou =>
        \A n \in 1..Len(carregados) :
            LET h == carregados[n].historico
                g == arquivo[n].historico
                m == IF Len(h) + 1 < 30 THEN Len(h) + 1 ELSE 30
            IN IF PrecoLido(n) # <<>>
               THEN /\ Len(g) = m
                    /\ g[m] = [data |-> relogio, preco |-> PrecoLido(n)[1]]
                    /\ \A k \in 1..(m - 1) : g[k] = h[Len(h) - (m - 1) + k]
               ELSE g = h

\* a second run read the price of a product whose history had 30 points, and the run
\* before it read none
C24_Witness ==
    /\ Terminou
    /\ nRuns = 2
    /\ PrecoLido(1) = <<1000>>
    /\ Len(carregados[1].historico) = 30
    /\ carregados[1].status # "Monitorando"
    /\ Len(arquivo[1].historico) = 30
    /\ arquivo[1].historico[29] = carregados[1].historico[30]

(* C25: a matched summary that has no productId is returned for its code as it is,    *)
(* with the label of the search, not as a marker, and no detail lookup is issued      *)
(* with a missing identifier.  Stated as claimed; the batch path sends such a code    *)
(* to the individual search, which looks up the missing identifier.                  *)
C25_ResumoSemIdRetornado ==
    /\ \A n \in 1..Len(log) : log[n].tipo = "detail" => log[n].id # ""
    /\ pc = "lote_ean" =>
          \A k \in 1..(lote_j - 1) :
              LET ean == Lote(valid_eans(eans), lote_i)[k]
              IN (ean \in DOMAIN found_products_map /\ found_products_map[ean].productId = "")
                    => InSeq([found_products_map[ean] EXCEPT
                                 !.target_name = "Busca EAN: " \o ean], results)

\* an upstream request of any kind, and a pause of either length
EhRequisicao(ev) == ev.tipo \in {"bulk", "individual", "detail"}
EhPausa(ev) == ev.tipo \in {"sleep", "sleep_detalhe"}

(* C26: within a resolver run every upstream request, bulk search, individual search  *)
(* or detail lookup, is followed by a pause before the next request: no two requests  *)
(* are sent back to back.  Stated as claimed; the detail lookup of a matched code     *)
(* follows the search that matched it with no pause in between.                       *)
C26_PausaAposCadaRequisicao ==
    \A n \in 1..(Len(log) - 1) : EhRequisicao(log[n]) => EhPausa(log[n + 1])

\* the resolver is running / is over, by return or by exception
NoResolver == pc \in {"lote", "lote_ean", "individual"}
ForaDoResolver == pc \in {"processar", "excecao", "done", "idle"}

\* the requests sent so far: no code has been searched individually twice or looked up
\* twice, no code is in two bulk requests, and the requests are no more than one per
\* batch and two per code
SemRepeticao ==
    /\ \A m, n \in 1..Len(log) :
          (m < n /\ log[m].tipo = log[n].tipo /\ log[m].tipo \in {"individual", "detail"})
             => log[m].termos # log[n].termos
    /\ \A m, n \in 1..Len(log) :
          (m < n /\ log[m].tipo = "bulk" /\ log[n].tipo = "bulk")
             => \A k \in 1..Len(log[m].termos) : ~InSeq(log[m].termos[k], log[n].termos)
    /\ Cardinality({n \in 1..Len(log) : EhRequisicao(log[n])})
          <= NumLotes(valid_eans(eans)) + 2 * Len(eans)
    /\ Resolvido => \A k \in 1..Len(eans) : Len(eans[k]) = 13 => TemBulk(eans[k])

(* C27: the resolver does not retry and it terminates.  In a run each code is the     *)
(* term of at most one individual search and the subject of at most one detail        *)
(* lookup, each code of length 13 is in at most one bulk request and, once the        *)
(* resolver has returned, in exactly one; the requests of a run over n codes are at   *)
(* most one per batch and two per code; and whatever the upstream answers, a          *)
(* resolver that is running comes to its end.                                        *)
C27_SemRepeticaoETermina == []SemRepeticao /\ (NoResolver ~> ForaDoResolver)

\* the resolver has returned from a run of two batches, one code of which was searched
\* individually after its batch and then looked up
C27_Witness ==
    /\ Resolvido
    /\ Len(Bulks) = 2
    /\ \E n \in 1..(Len(log) - 1) :
          log[n].tipo = "individual" /\ Len(log[n].termos[1]) = 13
              /\ log[n + 1].tipo = "detail"

(* C28: in a run that is over, a product that comes out 'Não Encontrado' or 'Erro'    *)
(* keeps its preco_atual, preco_anterior, variacao and historico, and its code: the   *)
(* run changes its status, its ultima_verificacao and possibly its nome, so that a    *)
(* variation an earlier run computed stays on a product now not found or in error.    *)
C28_SemPrecoNadaMuda ==
    Terminou =>
        \A n \in 1..Len(arquivo) :
            arquivo[n].status \in {"Não Encontrado", "Erro"} =>
                /\ arquivo[n].ean = carregados[n].ean
                /\ arquivo[n].preco_atual = carregados[n].preco_atual
                /\ arquivo[n].preco_anterior = carregados[n].preco_anterior
                /\ arquivo[n].variacao = carregados[n].variacao
                /\ arquivo[n].historico = carregados[n].historico
                /\ arquivo[n].ultima_verificacao = <<relogio>>

\* a run that completed found no valid price for a product that carried a variation:
\* the product is in error under the name the run read, the variation still there
C28_Witness ==
    /\ Terminou
    /\ saida = "completo"
    /\ arquivo[1].status = "Erro"
    /\ carregados[1].status = "Monitorando"
    /\ arquivo[1].nome # carregados[1].nome
    /\ arquivo[1].variacao # <<>>
    /\ arquivo[1].variacao = carregados[1].variacao
    /\ arquivo[2].status = "Não Encontrado"

\* the prices of a product agree with its history
PrecosDoHistorico(p) ==
    LET h == p.historico
    IN /\ h = <<>> <=> p.preco_atual = <<>>
       /\ h = <<>> => p.preco_anterior = <<>>
       /\ h # <<>> => /\ p.preco_atual[1] > 0
                      /\ p.preco_atual = <<h[Len(h)].preco>>
       /\ Len(h) = 1 => p.preco_anterior = <<>>
       /\ Len(h) >= 2 => p.preco_anterior = <<h[Len(h) - 1].preco>>

(* C29: for every product the registry created, after any update runs: the history   *)
(* is empty exactly when preco_atual is None; otherwise preco_atual is strictly       *)
(* positive and is the price of the last point of the history; and preco_anterior is  *)
(* the preco_atual the product had before its latest successful price read, which is  *)
(* the price of the point before the last, or None when that read was the first.      *)
C29_PrecosEHistorico ==
    /\ \A n \in 1..Len(arquivo) : PrecosDoHistorico(arquivo[n])
    /\ Terminou =>
          \A n \in 1..Len(arquivo) :
              arquivo[n].preco_anterior =
                  IF PrecoLido(n) # <<>> THEN carregados[n].preco_atual
                  ELSE carregados[n].preco_anterior

\* a product added through the registry was priced by two runs, at 10.00 and then at
\* 11.00
C29_Witness ==
    /\ Terminou
    /\ nRuns = 2
    /\ \E n \in 1..Len(arquivo) :
          /\ Len(arquivo[n].historico) = 2
          /\ arquivo[n].preco_anterior = <<1000>>
          /\ arquivo[n].preco_atual = <<1100>>
          /\ PrecoLido(n) = <<1100>>

(* C30: a run never gives a product a result that was obtained for another code: the  *)
(* record the run joins to a product, from which the product's price, name and        *)
(* status come, is the resolver's result for the product's own code, also when a      *)
(* record resolved for another code has a sub-item with this product's code.  Stated  *)
(* as claimed; the join goes by the first barcode of the record's sub-items.          *)
C30_ResultadoDoProprioCodigo ==
    Completo =>
        \A n \in 1..Len(carregados) :
            LET mapa == ResultadosPorEan(all_products_enriched)
                ean == carregados[n].ean
            IN ean \in DOMAIN mapa => Representa(mapa[ean], ean)

====
